---- MODULE Spec2Model ----
(***************************************************************************)
(* SIAUGESMAT: the batch transformation-and-replay pipeline.                *)
(*   - app/services/data_processor.py : DataProcessor (classifier,          *)
(*     transformer)                                                         *)
(*   - app/services/moodle_sync.py    : MoodleClient (remote LMS client)    *)
(*   - app/services/tasks.py          : process_moodle_batch (executor)     *)
(* Strings are sequences of one-character strings, so that len(), strip()   *)
(* and lower() are computed and not assumed.                                *)
(***************************************************************************)
EXTENDS Integers, Sequences, FiniteSets, TLC

\* ------------------------------------------------------------------ bounds
\* Longest handed-off table (rows of the CSV given to process_moodle_batch).
MaxRows == 2
\* Worker slots that can run process_moodle_batch.
NumJobs == 2
\* Most data rows of an uploaded table.
MaxUploadRows == 2

\* ------------------------------------------------------- program constants
\* tasks.py:221  "if index % 10 == 0"
FlushEvery == 10
\* moodle_sync.py:77  "if len(password) < 8"
MinPasswordLen == 8
\* tasks.py:208  "identifier=str(identifier)[:255]"
IdentifierMax == 255

Jobs == 1..NumJobs

\* ------------------------------------------------------------ Python values
\* A cell of a row (a value of row_dict): a missing key, None, an int, a
\* float (i holds the value in tenths) or a str.
Absent == [t |-> "absent", i |-> 0, s |-> <<>>]
None == [t |-> "null", i |-> 0, s |-> <<>>]
IntCell(n) == [t |-> "int", i |-> n, s |-> <<>>]
FloatCell(tenths) == [t |-> "float", i |-> tenths, s |-> <<>>]
StrCell(chars) == [t |-> "str", i |-> 0, s |-> chars]

Digits == <<"0", "1", "2", "3", "4", "5", "6", "7", "8", "9">>
IsDigit(c) == \E n \in 1..10 : Digits[n] = c
DigitVal(c) == (CHOOSE n \in 1..10 : Digits[n] = c) - 1
IsSpace(c) == c \in {" ", "\t", "\n"}

RECURSIVE NatToStr(_)
NatToStr(n) ==
    IF n < 10 THEN <<Digits[n + 1]>>
    ELSE Append(NatToStr(n \div 10), Digits[(n % 10) + 1])

IntToStr(n) == IF n < 0 THEN <<"-">> \o NatToStr(-n) ELSE NatToStr(n)

\* int(x) of a float truncates toward zero.
Trunc10(tenths) == IF tenths >= 0 THEN tenths \div 10 ELSE -((-tenths) \div 10)
Frac10(tenths) == IF tenths >= 0 THEN tenths % 10 ELSE (-tenths) % 10

\* str.strip()
RECURSIVE LStrip(_)
LStrip(s) == IF s # <<>> /\ IsSpace(Head(s)) THEN LStrip(Tail(s)) ELSE s
RECURSIVE RStrip(_)
RStrip(s) ==
    IF s # <<>> /\ IsSpace(s[Len(s)]) THEN RStrip(SubSeq(s, 1, Len(s) - 1)) ELSE s
Strip(s) == RStrip(LStrip(s))

\* str.lower() over the letters the model uses.
Uppers == <<"A", "B", "C", "D", "E", "F", "G", "H", "I", "J", "K", "L", "M",
            "N", "O", "P", "Q", "R", "S", "T", "U", "V", "W", "X", "Y", "Z">>
Lowers == <<"a", "b", "c", "d", "e", "f", "g", "h", "i", "j", "k", "l", "m",
            "n", "o", "p", "q", "r", "s", "t", "u", "v", "w", "x", "y", "z">>
\* Letters outside a-z and A-Z that str.upper() and str.lower() convert too.
AccentedUppers == <<"Á", "É", "Í", "Ó", "Ú", "Ñ">>
AccentedLowers == <<"á", "é", "í", "ó", "ú", "ñ">>
LowerChar(c) ==
    IF \E n \in 1..26 : Uppers[n] = c
    THEN Lowers[CHOOSE n \in 1..26 : Uppers[n] = c]
    ELSE IF \E n \in DOMAIN AccentedUppers : AccentedUppers[n] = c
    THEN AccentedLowers[CHOOSE n \in DOMAIN AccentedUppers : AccentedUppers[n] = c]
    ELSE c
Lower(s) == [k \in 1..Len(s) |-> LowerChar(s[k])]

\* s[:n]
Take(s, n) == SubSeq(s, 1, IF Len(s) < n THEN Len(s) ELSE n)

\* str(x)
PyStr(c) ==
    CASE c.t = "str" -> c.s
      [] c.t = "int" -> IntToStr(c.i)
      [] c.t = "float" ->
            (IF c.i < 0 THEN <<"-">> ELSE <<>>)
            \o NatToStr(IF c.i < 0 THEN (-c.i) \div 10 ELSE c.i \div 10)
            \o <<".">> \o NatToStr(Frac10(c.i))
      [] OTHER -> <<"N", "o", "n", "e">>

\* bool(x)
Truthy(c) ==
    CASE c.t = "str" -> c.s # <<>>
      [] c.t = "int" -> c.i # 0
      [] c.t = "float" -> c.i # 0
      [] OTHER -> FALSE

RECURSIVE DigitsToNat(_)
DigitsToNat(s) ==
    IF s = <<>> THEN 0
    ELSE 10 * DigitsToNat(SubSeq(s, 1, Len(s) - 1)) + DigitVal(s[Len(s)])

AllDigits(s) == s # <<>> /\ \A k \in 1..Len(s) : IsDigit(s[k])

\* int(x): [ok, v]; ok = FALSE is a raised TypeError (None) or ValueError
\* (a str that is no integer literal).
PyInt(c) ==
    CASE c.t = "int" -> [ok |-> TRUE, v |-> c.i]
      [] c.t = "float" -> [ok |-> TRUE, v |-> Trunc10(c.i)]
      [] c.t = "str" ->
            LET b == Strip(c.s)
                neg == b # <<>> /\ Head(b) = "-"
                d == IF b # <<>> /\ Head(b) \in {"-", "+"} THEN Tail(b) ELSE b
            IN  IF AllDigits(d)
                THEN [ok |-> TRUE, v |-> IF neg THEN -DigitsToNat(d) ELSE DigitsToNat(d)]
                ELSE [ok |-> FALSE, v |-> 0]
      [] OTHER -> [ok |-> FALSE, v |-> 0]

\* dict.get(key, default) on a row
RowGet(row, key, default) == IF row[key].t = "absent" THEN default ELSE row[key]

\* ------------------------------------------------------ remote LMS replies
\* The body of an HTTP reply, as response.json() returns it: null, a list of
\* objects with an id, or an object that may carry a "courses" list, a
\* "warnings" list, or an "exception" with a message (words: the words of
\* the message that create_user looks for).
JsonNull ==
    [kind |-> "null", ids |-> <<>>, has_courses |-> FALSE, has_warnings |-> FALSE,
     warnings |-> 0, exception |-> FALSE, words |-> {}]
JsonList(ids) ==
    [kind |-> "list", ids |-> ids, has_courses |-> FALSE, has_warnings |-> FALSE,
     warnings |-> 0, exception |-> FALSE, words |-> {}]
JsonCourses(ids) ==
    [kind |-> "dict", ids |-> ids, has_courses |-> TRUE, has_warnings |-> FALSE,
     warnings |-> 0, exception |-> FALSE, words |-> {}]
JsonWarnings(n) ==
    [kind |-> "dict", ids |-> <<>>, has_courses |-> FALSE, has_warnings |-> TRUE,
     warnings |-> n, exception |-> FALSE, words |-> {}]
JsonException(words) ==
    [kind |-> "dict", ids |-> <<>>, has_courses |-> FALSE, has_warnings |-> FALSE,
     warnings |-> 0, exception |-> TRUE, words |-> words]

\* What requests.post can do: answer with a JSON body, fail at the
\* transport (RequestException), or answer with a body that is no JSON.
HttpOk(body) == [http |-> "ok", body |-> body]
HttpConnError == [http |-> "conn_error", body |-> JsonNull]
HttpBadJson == [http |-> "bad_json", body |-> JsonNull]

\* The replies the remote LMS gives in the model.
Replies ==
    { HttpOk(JsonNull), HttpOk(JsonList(<<7>>)), HttpOk(JsonList(<<>>)),
      HttpOk(JsonCourses(<<7>>)), HttpOk(JsonCourses(<<>>)),
      HttpOk(JsonWarnings(0)), HttpOk(JsonWarnings(1)),
      HttpOk(JsonException({})),
      HttpOk(JsonException({"password", "policy"})),
      HttpOk(JsonException({"username", "already exists"})),
      HttpConnError, HttpBadJson }

\* bool(data) of a JSON body
JsonTruthy(b) ==
    CASE b.kind = "null" -> FALSE
      [] b.kind = "list" -> b.ids # <<>>
      [] OTHER -> b.has_courses \/ b.has_warnings \/ b.exception

\* ------------------------------------------------------------ MoodleClient
\* A result dict {"success", "data", "error"}: data is a JSON body (dtag =
\* "json"), one of these with a template note, or a fixed message (dtag).
Success(dtag, body) ==
    [success |-> TRUE, dtag |-> dtag, body |-> body, error |-> "", words |-> {}]
Failure(error, words) ==
    [success |-> FALSE, dtag |-> "", body |-> JsonNull, error |-> error, words |-> words]

\* A call of a client method: whether it raised, the dict it returned, and
\* the remote functions it requested, in order.
\* caught: an exception was raised on the way and swallowed by an inner except.
Returned(result, calls) ==
    [raised |-> FALSE, caught |-> FALSE, result |-> result, calls |-> calls]
Raised(calls) ==
    [raised |-> TRUE, caught |-> FALSE, result |-> Failure("", {}), calls |-> calls]
Call(fn, arg) == [fn |-> fn, arg |-> arg]

send_request(reply) ==
    CASE reply.http = "conn_error" -> Failure("Error de conexion: ", {})
      [] reply.http = "bad_json" -> Failure("Error interno: ", {})
      [] reply.body.kind = "dict" /\ reply.body.exception ->
            Failure("moodle message", reply.body.words)
      [] OTHER -> Success("json", reply.body)

\* [raised, id]: id = 0 is None.
get_user_id_by_username(reply) ==
    LET result == send_request(reply)
    IN  IF result.success /\ JsonTruthy(result.body)
        THEN IF result.body.kind = "list"
             THEN [raised |-> FALSE, id |-> result.body.ids[1]]
             ELSE [raised |-> TRUE, id |-> 0]
        ELSE [raised |-> FALSE, id |-> 0]

get_course_id_by_shortname(reply) ==
    LET result == send_request(reply)
    IN  IF ~result.success THEN [raised |-> FALSE, id |-> 0]
        ELSE CASE result.body.kind = "null" -> [raised |-> TRUE, id |-> 0]
               [] result.body.kind = "list" -> [raised |-> FALSE, id |-> 0]
               [] OTHER ->
                    IF result.body.has_courses /\ result.body.ids # <<>>
                    THEN [raised |-> FALSE, id |-> result.body.ids[1]]
                    ELSE [raised |-> FALSE, id |-> 0]

PasswordTooShort == "Contrasena insegura: Minimo 8 caracteres requeridos."

\* A variant with a lower threshold.
password_too_short_lax(password) == Len(password) < MinPasswordLen - 2

\* moodle_sync.py:77
password_too_short(password) == Len(password) < MinPasswordLen

create_user(user_data, reply) ==
    LET password == PyStr(RowGet(user_data, "password", StrCell(<<>>)))
        result == send_request(reply)
        sent == <<Call("core_user_create_users", Len(password))>>
    IN  IF password_too_short(password)
        THEN Returned(Failure(PasswordTooShort, {}), <<>>)
        ELSE IF ~result.success /\ {"password", "policy"} \subseteq result.words
        THEN Returned(Failure("La contrasena no cumple la politica de seguridad", {}), sent)
        ELSE IF ~result.success /\ {"username", "already exists"} \subseteq result.words
        THEN Returned(Failure("El usuario ya existe.", {}), sent)
        ELSE Returned(result, sent)

delete_user(username, reply1, reply2) ==
    LET user == get_user_id_by_username(reply1)
        lookup == <<Call("core_user_get_users_by_field", 0)>>
        result == send_request(reply2)
        sent == Append(lookup, Call("core_user_delete_users", user.id))
    IN  IF user.raised THEN Raised(lookup)
        ELSE IF user.id = 0
        THEN Returned(Failure("Usuario no encontrado, no se puede eliminar.", {}), lookup)
        ELSE IF result.success /\ result.body.kind = "null"
        THEN Returned(Success("Usuario eliminado correctamente.", JsonNull), sent)
        ELSE Returned(result, sent)

check_category_exists(reply) ==
    LET result == send_request(reply)
    IN  result.success /\ result.body.kind = "list" /\ Len(result.body.ids) > 0

\* moodle_sync.py 151-152: int(course_data.get("category_id")
\* or course_data.get("category") or 0), as [ok, v]
category_id_of(course_data) ==
    LET first == RowGet(course_data, "category_id", None)
        cat_raw == IF Truthy(first) THEN first ELSE RowGet(course_data, "category", None)
    IN  PyInt(IF Truthy(cat_raw) THEN cat_raw ELSE IntCell(0))

\* moodle_sync.py 139: the criterion of the category query
category_criteria(category_id) == [key |-> "id", value |-> IntCell(category_id)]

\* moodle_sync.py 145-171
create_course(course_data, reply1, reply2) ==
    LET parsed == category_id_of(course_data)
        check == <<Call("core_course_get_categories", parsed.v)>>
        sent == Append(check, Call("core_course_create_courses", parsed.v))
    IN  IF ~parsed.ok
        THEN Returned(Failure("El ID de categoria debe ser un numero entero.", {}), <<>>)
        ELSE IF ~check_category_exists(reply1)
        THEN Returned(Failure("La categoria ID no existe.", {}), check)
        ELSE Returned(send_request(reply2), sent)

update_course_visibility(shortname, visible, reply1, reply2) ==
    LET course == get_course_id_by_shortname(reply1)
        lookup == <<Call("core_course_get_courses_by_field", 0)>>
        result == send_request(reply2)
        sent == Append(lookup, Call("core_course_update_courses", visible))
    IN  IF course.raised THEN Raised(lookup)
        ELSE IF course.id = 0
        THEN Returned(Failure("Curso no encontrado.", {}), lookup)
        ELSE IF result.success
        THEN Returned(Success("Visibilidad del curso actualizada", JsonNull), sent)
        ELSE Returned(result, sent)

delete_course(shortname, reply1, reply2) ==
    LET course == get_course_id_by_shortname(reply1)
        lookup == <<Call("core_course_get_courses_by_field", 0)>>
        result == send_request(reply2)
        sent == Append(lookup, Call("core_course_delete_courses", course.id))
    IN  IF course.raised THEN Raised(lookup)
        ELSE IF course.id = 0
        THEN Returned(Failure("Curso no encontrado, no se puede eliminar.", {}), lookup)
        ELSE IF ~result.success THEN Returned(result, sent)
        \* result.get("data", {}).get("warnings", []): data is there, so a
        \* null or list body has no .get and raises AttributeError.
        ELSE IF result.body.kind # "dict" THEN Raised(sent)
        ELSE IF result.body.has_warnings /\ result.body.warnings > 0
        THEN Returned(Failure("Advertencia Moodle: ", {}), sent)
        ELSE Returned(Success("Curso eliminado correctamente.", JsonNull), sent)
\* ------------------------------------------------------------- role mapping
\* tasks.py mapping: spreadsheet role -> technical role name.
role_mapping ==
    { <<<<"p", "r", "o", "f", "e", "s", "o", "r">>,
        <<"e", "d", "i", "t", "i", "n", "g", "t", "e", "a", "c", "h", "e", "r">>>>,
      <<<<"d", "o", "c", "e", "n", "t", "e">>,
        <<"e", "d", "i", "t", "i", "n", "g", "t", "e", "a", "c", "h", "e", "r">>>>,
      <<<<"p", "r", "o", "f", "e", "s", "o", "r", " ", "c", "o", "n", " ", "p", "e", "r", "m", "i", "s", "o">>,
        <<"e", "d", "i", "t", "i", "n", "g", "t", "e", "a", "c", "h", "e", "r">>>>,
      <<<<"p", "r", "o", "f", "e", "s", "o", "r", " ", "s", "i", "n", " ", "p", "e", "r", "m", "i", "s", "o">>,
        <<"t", "e", "a", "c", "h", "e", "r">>>>,
      <<<<"e", "s", "t", "u", "d", "i", "a", "n", "t", "e">>,
        <<"s", "t", "u", "d", "e", "n", "t">>>>,
      <<<<"a", "l", "u", "m", "n", "o">>,
        <<"s", "t", "u", "d", "e", "n", "t">>>>,
      <<<<"i", "n", "v", "i", "t", "a", "d", "o">>,
        <<"g", "u", "e", "s", "t">>>>,
      <<<<"g", "e", "s", "t", "o", "r">>,
        <<"m", "a", "n", "a", "g", "e", "r">>>>,
      <<<<"e", "d", "i", "t", "i", "n", "g", "t", "e", "a", "c", "h", "e", "r">>,
        <<"e", "d", "i", "t", "i", "n", "g", "t", "e", "a", "c", "h", "e", "r">>>>,
      <<<<"t", "e", "a", "c", "h", "e", "r">>,
        <<"t", "e", "a", "c", "h", "e", "r">>>>,
      <<<<"s", "t", "u", "d", "e", "n", "t">>,
        <<"s", "t", "u", "d", "e", "n", "t">>>>,
      <<<<"g", "u", "e", "s", "t">>,
        <<"g", "u", "e", "s", "t">>>>,
      <<<<"m", "a", "n", "a", "g", "e", "r">>,
        <<"m", "a", "n", "a", "g", "e", "r">>>>,
      <<<<"c", "o", "u", "r", "s", "e", "c", "r", "e", "a", "t", "o", "r">>,
        <<"c", "o", "u", "r", "s", "e", "c", "r", "e", "a", "t", "o", "r">>>> }

\* moodle_sync.py role_map: technical role name -> remote role id.
role_map ==
    { <<<<"m", "a", "n", "a", "g", "e", "r">>, 1>>,
      <<<<"c", "o", "u", "r", "s", "e", "c", "r", "e", "a", "t", "o", "r">>, 2>>,
      <<<<"e", "d", "i", "t", "i", "n", "g", "t", "e", "a", "c", "h", "e", "r">>, 3>>,
      <<<<"t", "e", "a", "c", "h", "e", "r">>, 4>>,
      <<<<"s", "t", "u", "d", "e", "n", "t">>, 5>>,
      <<<<"g", "u", "e", "s", "t">>, 6>> }

s_editingteacher == <<"e", "d", "i", "t", "i", "n", "g", "t", "e", "a", "c", "h", "e", "r">>
s_student == <<"s", "t", "u", "d", "e", "n", "t">>

\* dict.get(key, default) on a set of <<key, value>> pairs
DictGet(dict, key, default) ==
    IF \E kv \in dict : kv[1] = key
    THEN (CHOOSE kv \in dict : kv[1] = key)[2]
    ELSE default

\* A variant that falls back to the client's default role.
map_role_defaulting_to_student(role_input) ==
    IF role_input.t = "null" \/ Strip(PyStr(role_input)) = <<>>
    THEN s_student
    ELSE DictGet(role_mapping, Strip(Lower(PyStr(role_input))), s_student)

\* tasks.py 33-62
map_role_to_technical_name(role_input) ==
    IF role_input.t = "null" \/ Strip(PyStr(role_input)) = <<>>
    THEN s_editingteacher
    ELSE DictGet(role_mapping, Strip(Lower(PyStr(role_input))), s_editingteacher)

\* moodle_sync.py 240-244: a digit string is the id, a name is looked up.
role_id_of(role_input) ==
    IF AllDigits(PyStr(role_input))
    THEN DigitsToNat(PyStr(role_input))
    ELSE DictGet(role_map, Lower(PyStr(role_input)), 5)

\* A variant that enrolls without waiting for the course lookup.
enroll_user_unresolved(enrollment_data, reply1, reply2, reply3) ==
    LET user == get_user_id_by_username(reply1)
        lookup1 == <<Call("core_user_get_users_by_field", 0)>>
    IN  IF user.raised THEN Raised(lookup1)
        ELSE IF user.id = 0 THEN Returned(Failure("Usuario no encontrado.", {}), lookup1)
        ELSE Returned(send_request(reply3),
                      <<lookup1[1], Call("enrol_manual_enrol_users", 5),
                        Call("core_course_get_courses_by_field", 0)>>)

\* moodle_sync.py 223-268
enroll_user(enrollment_data, reply1, reply2, reply3) ==
    LET role_input == RowGet(enrollment_data, "role", StrCell(s_student))
        role_id == role_id_of(role_input)
        user == get_user_id_by_username(reply1)
        course == get_course_id_by_shortname(reply2)
        lookup1 == <<Call("core_user_get_users_by_field", 0)>>
        lookup2 == Append(lookup1, Call("core_course_get_courses_by_field", 0))
        result == send_request(reply3)
        sent == Append(lookup2, Call("enrol_manual_enrol_users", role_id))
    IN  IF user.raised THEN Raised(lookup1)
        ELSE IF user.id = 0 THEN Returned(Failure("Usuario no encontrado.", {}), lookup1)
        ELSE IF course.raised THEN Raised(lookup2)
        ELSE IF course.id = 0 THEN Returned(Failure("Curso no encontrado.", {}), lookup2)
        ELSE IF result.success /\ result.body.kind = "null"
        THEN Returned(Success("Matriculado correctamente", JsonNull), sent)
        ELSE Returned(result, sent)

\* MoodleClient defines no import_course_content: looking the attribute up
\* raises AttributeError before any request is made.
import_course_content(new_course_id, template_name) == Raised(<<>>)
\* ---------------------------------------------- process_moodle_batch: a row
OperationKinds ==
    {"CREATE_USER", "ENROLL_USER", "CREATE_COURSE", "DELETE_COURSE", "DELETE_USER",
     "UPDATE_VISIBILITY"}

Sleep == Call("time.sleep", 0)
s_NA == StrCell(<<"N", "/", "A">>)
FlagNotSet == "Flag 'delete' no es 1. Se omitio."
WorkerError == "Error Worker: "

\* The try block of one row once the client method came back: an exception
\* skips the sleep and becomes the "Error Worker" result.
\* A variant whose except clause misses the exception raised.
RowDoneNarrowExcept(identifier, m) ==
    [result |-> IF m.raised THEN Failure(WorkerError, {}) ELSE m.result,
     identifier |-> identifier,
     calls |-> IF m.raised THEN m.calls ELSE Append(m.calls, Sleep),
     raised |-> m.raised, caught |-> m.caught, propagated |-> m.raised]

\* "except Exception" catches every exception of the block: none propagates
\* to the outer try.
RowDone(identifier, m) ==
    IF m.raised
    THEN [result |-> Failure(WorkerError, {}), identifier |-> identifier,
          calls |-> m.calls, raised |-> TRUE, caught |-> m.caught,
          propagated |-> FALSE]
    ELSE [result |-> m.result, identifier |-> identifier,
          calls |-> Append(m.calls, Sleep), raised |-> FALSE, caught |-> m.caught,
          propagated |-> FALSE]

\* CREATE_COURSE, step 2: the template import after the course was created.
apply_template(row_dict, m) ==
    LET template_name == RowGet(row_dict, "templatecourse", None)
        data_list == m.result.body
        import_res == import_course_content(data_list.ids[1], template_name)
    IN  IF m.raised \/ ~m.result.success \/ ~Truthy(template_name)
           \/ Strip(PyStr(template_name)) = <<>>
        THEN m
        ELSE IF ~(m.result.dtag = "json" /\ data_list.kind = "list" /\ Len(data_list.ids) > 0)
        THEN m
        \* the inner except logs the error and leaves result as it was
        ELSE IF import_res.raised
        THEN [Returned(m.result, m.calls \o import_res.calls) EXCEPT !.caught = TRUE]
        ELSE IF import_res.result.success
        THEN Returned(Success("json, template_status: Importada OK", data_list),
                      m.calls \o import_res.calls)
        ELSE Returned(Success("json, template_warning: Curso creado, pero fallo plantilla",
                              data_list),
                      m.calls \o import_res.calls)

\* The try block of one row (tasks.py 97-197): the result dict, the
\* identifier, the remote requests made, and whether the except ran.
dispatch(forced_operation, row_dict, reply1, reply2, reply3) ==
    CASE forced_operation = "CREATE_USER" ->
            RowDone(RowGet(row_dict, "username", s_NA), create_user(row_dict, reply1))
      [] forced_operation = "ENROLL_USER" ->
            LET identifier == StrCell(PyStr(RowGet(row_dict, "username", None))
                                      \o <<" ", "-", ">", " ">>
                                      \o PyStr(RowGet(row_dict, "shortname", None)))
                raw_role == RowGet(row_dict, "role", None)
                mapped == [row_dict EXCEPT
                              !["role"] = StrCell(map_role_to_technical_name(raw_role))]
            IN  RowDone(identifier, enroll_user(mapped, reply1, reply2, reply3))
      [] forced_operation = "CREATE_COURSE" ->
            RowDone(RowGet(row_dict, "shortname", s_NA),
                    apply_template(row_dict, create_course(row_dict, reply1, reply2)))
      [] forced_operation = "DELETE_COURSE" ->
            LET identifier == RowGet(row_dict, "shortname", s_NA)
                flag == PyInt(RowGet(row_dict, "delete", IntCell(0)))
            IN  IF ~flag.ok THEN RowDone(identifier, Raised(<<>>))
                ELSE IF flag.v = 1
                THEN RowDone(identifier, delete_course(identifier, reply1, reply2))
                ELSE RowDone(identifier, Returned(Failure(FlagNotSet, {}), <<>>))
      [] forced_operation = "DELETE_USER" ->
            LET identifier == RowGet(row_dict, "username", s_NA)
                flag == PyInt(RowGet(row_dict, "delete", IntCell(0)))
            IN  IF ~flag.ok THEN RowDone(identifier, Raised(<<>>))
                ELSE IF flag.v = 1
                THEN RowDone(identifier, delete_user(identifier, reply1, reply2))
                ELSE RowDone(identifier, Returned(Failure(FlagNotSet, {}), <<>>))
      [] forced_operation = "UPDATE_VISIBILITY" ->
            LET identifier == RowGet(row_dict, "shortname", s_NA)
                visible_flag == PyInt(RowGet(row_dict, "visible", IntCell(1)))
            IN  IF ~visible_flag.ok THEN RowDone(identifier, Raised(<<>>))
                ELSE RowDone(identifier,
                             update_course_visibility(identifier, visible_flag.v,
                                                      reply1, reply2))
      [] OTHER ->
            RowDone(StrCell(<<"D", "e", "s", "c", "o", "n", "o", "c", "i", "d", "o">>),
                    Returned(Failure("Operacion desconocida", {}), <<>>))
\* ------------------------------------------------------------------- state
VARIABLES
    pc,               \* per job: where process_moodle_batch stands
    forced_operation, \* per job: the operation argument
    file_content,     \* per job: the CSV argument, [ok: pd.read_csv parses it, rows]
    index,            \* per job: the loop's row index
    success_count,    \* per job: the local counter
    error_count,      \* per job: the local counter
    upload_rec,       \* per job: the FileUpload object's attributes in the session
    rec_id,           \* per job: upload_rec.id, 0 while it has no row in the store
    pending,          \* per job: ProcessingLog objects added and not yet committed
    file_uploads,     \* the store: committed file_uploads rows, by id
    processing_logs,  \* the store: committed processing_logs rows, in order
    rowlog,           \* per job: per processed row, what the try block did
    fault,            \* per job: what sent control to the outer except, if anything
    outcome,          \* per job: "none", "returned" or "raised"
    upload,           \* the uploaded file given to analyze_file
    analysis,         \* the dict analyze_file returned
    naming,           \* one academic row and what the naming rules give for it
    response,         \* what upload_file_api answered
    page              \* the upload page: its SessionState and what it shows

task_vars ==
    <<pc, forced_operation, file_content, index, success_count, error_count,
      upload_rec, rec_id, pending, file_uploads, processing_logs, rowlog, fault,
      outcome>>
front_vars == <<response, page>>
ingest_vars == <<upload, analysis, naming, front_vars>>
vars == <<task_vars, ingest_vars>>

\* ------------------------------------------------------------ input tables
Chars(n) == [k \in 1..n |-> "x"]
s_u1 == StrCell(<<"u", "1">>)
s_c1 == StrCell(<<"c", "1">>)

EmptyRow ==
    [username |-> Absent, shortname |-> Absent, password |-> Absent,
     delete |-> Absent, visible |-> Absent, role |-> Absent,
     templatecourse |-> Absent, category_id |-> Absent, category |-> Absent,
     category_idnumber |-> Absent]

\* The rows a handed-off table of each operation is drawn from.
RowsFor(op) ==
    CASE op = "CREATE_USER" ->
            { [EmptyRow EXCEPT !.username = s_u1, !.password = pw] :
                pw \in { StrCell(Chars(6)), StrCell(Chars(7)), StrCell(Chars(8)), None } }
      [] op = "ENROLL_USER" ->
            { [EmptyRow EXCEPT !.username = s_u1, !.shortname = s_c1, !.role = r] :
                r \in { Absent, StrCell(<<"A", "l", "u", "m", "n", "o", " ">>) } }
      [] op = "CREATE_COURSE" ->
            { [EmptyRow EXCEPT !.shortname = s_c1, !.category_id = ct[1],
                               !.templatecourse = ct[2]] :
                ct \in { <<Absent, Absent>>, <<IntCell(3), StrCell(<<"P", "0", "4">>)>>,
                         <<IntCell(3), StrCell(<<" ">>)>>, <<StrCell(<<"x">>), Absent>> } }
      [] op = "DELETE_COURSE" ->
            { [EmptyRow EXCEPT !.shortname = s_c1, !.delete = d] :
                d \in { Absent, None, IntCell(0), IntCell(1), IntCell(2) } }
      [] op = "DELETE_USER" ->
            { [EmptyRow EXCEPT !.username = s_u1, !.delete = d] :
                d \in { None, IntCell(0), IntCell(1), FloatCell(15), StrCell(<<"s", "i">>) } }
      [] OTHER ->
            { [EmptyRow EXCEPT !.shortname = s_c1, !.visible = v] :
                v \in { Absent, None, IntCell(0), IntCell(1) } }

Unparseable == [ok |-> FALSE, rows |-> <<>>]
Tables(op) ==
    {Unparseable}
    \cup { [ok |-> TRUE, rows |-> rows] :
             rows \in UNION { [1..n -> RowsFor(op)] : n \in 0..MaxRows } }

NewRecord(op) ==
    [operation_type |-> op, status |-> "PROCESSING", total_records |-> 0,
     success_count |-> 0, error_count |-> 0]
NoTable == [ok |-> TRUE, rows |-> <<>>]

\* No file has been uploaded; analyze_file has not returned.
NoFrame == [columns |-> <<>>, rows |-> <<>>]
NoUpload == [ok |-> FALSE, columns |-> <<>>, rows |-> <<>>]
NotAnalyzed ==
    [returned |-> FALSE, valid |-> FALSE, operation |-> "None", error |-> "None",
     dataframe |-> NoFrame]
\* No academic row has been given to the naming rules.
NotNamed(row) ==
    [called |-> FALSE, row |-> row, prefix |-> <<>>, program_code |-> <<>>,
     program_code_raised |-> FALSE, derived |-> FALSE, shortname |-> <<>>,
     fullname |-> <<>>, category_idnumber |-> <<>>, templatecourse |-> <<>>]
NoAcademicRow == <<>>
\* upload_file_api has not answered.
NoResponse == [status |-> 0, detail |-> "None"]
\* interface.py 13-22: the page as main_page builds it.
NoCsv == [columns |-> <<>>, rows |-> <<>>]
NewPage ==
    [csv_data |-> NoCsv, has_csv_data |-> FALSE, operation_type |-> "None",
     container_visible |-> FALSE, notified |-> "None"]

\* The tables of jobs that run side by side: rows that make no remote
\* request, so that the interleavings are those of the store.
SharedRunTables ==
    {Unparseable}
    \cup { [ok |-> TRUE,
             rows |-> <<[EmptyRow EXCEPT !.shortname = s_c1, !.delete = IntCell(0)]>>] }

\* Either one worker slot takes one job of any kind and the other slots stay
\* idle, or every slot takes a DELETE_COURSE job and they run side by side.
Init ==
    /\ \/ /\ pc = [j \in Jobs |-> IF j = 1 THEN "queued" ELSE "idle"]
          /\ \E op \in OperationKinds : \E t \in Tables(op) :
                /\ forced_operation = [j \in Jobs |-> op]
                /\ file_content = [j \in Jobs |-> IF j = 1 THEN t ELSE NoTable]
       \/ /\ pc = [j \in Jobs |-> "queued"]
          /\ forced_operation = [j \in Jobs |-> "DELETE_COURSE"]
          /\ file_content \in [Jobs -> SharedRunTables]
    /\ index = [j \in Jobs |-> 0]
    /\ success_count = [j \in Jobs |-> 0]
    /\ error_count = [j \in Jobs |-> 0]
    /\ upload_rec = [j \in Jobs |-> NewRecord(forced_operation[j])]
    /\ rec_id = [j \in Jobs |-> 0]
    /\ pending = [j \in Jobs |-> <<>>]
    /\ file_uploads = <<>>
    /\ processing_logs = <<>>
    /\ rowlog = [j \in Jobs |-> <<>>]
    /\ fault = [j \in Jobs |-> "none"]
    /\ outcome = [j \in Jobs |-> "none"]
    /\ upload = NoUpload
    /\ analysis = NotAnalyzed
    /\ naming = NotNamed(NoAcademicRow)
    /\ response = NoResponse
    /\ page = NewPage

\* A variant whose commit writes the record and keeps the audit entries
\* pending.
CommittedWithoutLogs(j, rec, logs) ==
    /\ file_uploads' =
          IF rec_id[j] = 0 THEN file_uploads
          ELSE [file_uploads EXCEPT ![rec_id[j]] = rec]
    /\ processing_logs' = processing_logs
    /\ pending' = [pending EXCEPT ![j] = logs]
    /\ upload_rec' = [upload_rec EXCEPT ![j] = rec]

\* ------------------------------------------------------------- the session
\* A variant whose UPDATE is not keyed by the job's own record.
CommittedToFirstRecord(j, rec, logs) ==
    /\ file_uploads' =
          IF rec_id[j] = 0 THEN file_uploads ELSE [file_uploads EXCEPT ![1] = rec]
    /\ processing_logs' = processing_logs \o logs
    /\ pending' = [pending EXCEPT ![j] = <<>>]
    /\ upload_rec' = [upload_rec EXCEPT ![j] = rec]
\* db.commit() that succeeds: upload_rec's attributes and the pending
\* ProcessingLog objects reach the store. An object that never got a row
\* (rec_id = 0 after a rollback) is no longer in the session.
Committed(j, rec, logs) ==
    /\ file_uploads' =
          IF rec_id[j] = 0 THEN file_uploads
          ELSE [file_uploads EXCEPT ![rec_id[j]] = rec]
    /\ processing_logs' = processing_logs \o logs
    /\ pending' = [pending EXCEPT ![j] = <<>>]
    /\ upload_rec' = [upload_rec EXCEPT ![j] = rec]

\* db.commit() that raises: nothing reaches the store, the session keeps
\* what it held, and control goes to the outer except.
CommitRaised(j, rec, logs) ==
    /\ UNCHANGED <<file_uploads, processing_logs>>
    /\ pending' = [pending EXCEPT ![j] = logs]
    /\ upload_rec' = [upload_rec EXCEPT ![j] = rec]
    /\ pc' = [pc EXCEPT ![j] = "except"]
    /\ fault' = [fault EXCEPT ![j] = "commit"]

\* ------------------------------------------------- process_moodle_batch
\* tasks.py 70-81: open the session, add the FileUpload, commit, refresh.
CreateRecord(j) ==
    /\ pc[j] = "queued"
    /\ \E ok \in BOOLEAN :
          IF ok
          THEN /\ file_uploads' = Append(file_uploads, NewRecord(forced_operation[j]))
               /\ rec_id' = [rec_id EXCEPT ![j] = Len(file_uploads) + 1]
               /\ pc' = [pc EXCEPT ![j] = "read_csv"]
               /\ UNCHANGED fault
          ELSE /\ UNCHANGED <<file_uploads, rec_id>>
               /\ pc' = [pc EXCEPT ![j] = "except"]
               /\ fault' = [fault EXCEPT ![j] = "commit"]
    /\ upload_rec' = [upload_rec EXCEPT ![j] = NewRecord(forced_operation[j])]
    /\ UNCHANGED <<forced_operation, file_content, index, success_count, error_count,
                   pending, processing_logs, rowlog, outcome>>
    /\ UNCHANGED ingest_vars

\* A variant that counts the header line as a record.
len_df_with_header(df) == Len(df.rows) + 1

\* tasks.py:85  total_records = len(df)
len_df(df) == Len(df.rows)

\* tasks.py 84-91: parse the CSV, store total_records, commit.
ReadCsv(j) ==
    /\ pc[j] = "read_csv"
    /\ IF ~file_content[j].ok
       THEN /\ pc' = [pc EXCEPT ![j] = "except"]
            /\ fault' = [fault EXCEPT ![j] = "read_csv"]
            /\ UNCHANGED <<upload_rec, pending, file_uploads, processing_logs>>
       ELSE LET rec == [upload_rec[j] EXCEPT !.total_records = len_df(file_content[j])]
            IN  \E ok \in BOOLEAN :
                  IF ok
                  THEN /\ Committed(j, rec, pending[j])
                       /\ pc' = [pc EXCEPT ![j] = "loop"]
                       /\ UNCHANGED fault
                  ELSE CommitRaised(j, rec, pending[j])
    /\ index' = [index EXCEPT ![j] = 0]
    /\ success_count' = [success_count EXCEPT ![j] = 0]
    /\ error_count' = [error_count EXCEPT ![j] = 0]
    /\ UNCHANGED <<forced_operation, file_content, rec_id, rowlog, outcome>>
    /\ UNCHANGED ingest_vars

\* A variant that walks the table from its last row.
CurrentRowBackwards(j) == file_content[j].rows[Len(file_content[j].rows) - index[j]]
\* tasks.py 96: df.iterrows()
CurrentRow(j) == file_content[j].rows[index[j] + 1]

\* The remote answers the requests that are made: the n-th reply is drawn
\* only when the row, given the earlier replies, makes an n-th request.
NoReply == HttpConnError
Requests(calls) == Len(SelectSeq(calls, LAMBDA c : c # Sleep))
RepliesIfAsked(n, op, row_dict, reply1, reply2) ==
    IF Requests(dispatch(op, row_dict, reply1, reply2, NoReply).calls) >= n
    THEN Replies
    ELSE {NoReply}

\* A variant that flushes after every row.
flush_every_row(j) == TRUE

\* tasks.py:221  if index % 10 == 0
flush_due(j) == index[j] % FlushEvery = 0

\* tasks.py 96-224: one iteration of the loop.
ProcessRow(j) ==
    /\ pc[j] = "loop"
    /\ index[j] < Len(file_content[j].rows)
    /\ \E reply1 \in Replies :
       \E reply2 \in RepliesIfAsked(2, forced_operation[j], CurrentRow(j),
                                    reply1, NoReply) :
       \E reply3 \in RepliesIfAsked(3, forced_operation[j], CurrentRow(j),
                                    reply1, reply2) :
          LET row_dict == CurrentRow(j)
              done == dispatch(forced_operation[j], row_dict, reply1, reply2, reply3)
              is_success == done.result.success
              log_entry ==
                  [upload_id |-> rec_id[j],
                   identifier |-> Take(PyStr(done.identifier), IdentifierMax),
                   action |-> forced_operation[j],
                   status |-> IF is_success THEN "SUCCESS" ELSE "ERROR",
                   message |-> IF is_success THEN done.result.dtag ELSE done.result.error]
              successes == success_count[j] + (IF is_success THEN 1 ELSE 0)
              errors == error_count[j] + (IF is_success THEN 0 ELSE 1)
              added == Append(pending[j], log_entry)
              rec == [upload_rec[j] EXCEPT !.success_count = successes,
                                           !.error_count = errors]
          IN  /\ rowlog' = [rowlog EXCEPT ![j] =
                               Append(@, [calls |-> done.calls, raised |-> done.raised,
                                          caught |-> done.caught,
                                          status |-> log_entry.status,
                                          message |-> log_entry.message])]
              /\ success_count' = [success_count EXCEPT ![j] = successes]
              /\ error_count' = [error_count EXCEPT ![j] = errors]
              /\ IF done.propagated
                 THEN /\ pc' = [pc EXCEPT ![j] = "except"]
                      /\ fault' = [fault EXCEPT ![j] = "row"]
                      /\ UNCHANGED <<upload_rec, pending, file_uploads, processing_logs>>
                 ELSE IF flush_due(j)
                 THEN \E ok \in BOOLEAN :
                        IF ok
                        THEN /\ Committed(j, rec, added)
                             /\ UNCHANGED <<pc, fault>>
                        ELSE CommitRaised(j, rec, added)
                 ELSE /\ pending' = [pending EXCEPT ![j] = added]
                      /\ UNCHANGED <<upload_rec, file_uploads, processing_logs, pc,
                                     fault>>
    /\ index' = [index EXCEPT ![j] = @ + 1]
    /\ UNCHANGED <<forced_operation, file_content, rec_id, outcome>>
    /\ UNCHANGED ingest_vars

\* A variant that leaves the loop one row early.
loop_exhausted_early(j) ==
    index[j] = Len(file_content[j].rows) \/ index[j] + 1 = Len(file_content[j].rows)

\* tasks.py:96  "for index, row in df.iterrows()" has no row left
loop_exhausted(j) == index[j] = Len(file_content[j].rows)

\* A variant in which a statement after the COMPLETED commit raises inside
\* the outer try.
CompleteThenRaise(j) ==
    /\ pc[j] = "loop"
    /\ loop_exhausted(j)
    /\ Committed(j, [upload_rec[j] EXCEPT !.status = "COMPLETED",
                                         !.success_count = success_count[j],
                                         !.error_count = error_count[j]], pending[j])
    /\ pc' = [pc EXCEPT ![j] = "except"]
    /\ fault' = [fault EXCEPT ![j] = "after_commit"]
    /\ UNCHANGED <<forced_operation, file_content, index, success_count, error_count,
                   rec_id, rowlog, outcome>>
    /\ UNCHANGED ingest_vars

\* tasks.py 227-238: after the loop, mark COMPLETED, commit, return.
Complete(j) ==
    /\ pc[j] = "loop"
    /\ loop_exhausted(j)
    /\ LET rec == [upload_rec[j] EXCEPT !.status = "COMPLETED",
                                        !.success_count = success_count[j],
                                        !.error_count = error_count[j]]
       IN  \E ok \in BOOLEAN :
             IF ok
             THEN /\ Committed(j, rec, pending[j])
                  /\ pc' = [pc EXCEPT ![j] = "done"]
                  /\ outcome' = [outcome EXCEPT ![j] = "returned"]
                  /\ UNCHANGED fault
             ELSE /\ CommitRaised(j, rec, pending[j])
                  /\ UNCHANGED outcome
    /\ UNCHANGED <<forced_operation, file_content, index, success_count, error_count,
                   rec_id, rowlog>>
    /\ UNCHANGED ingest_vars

\* tasks.py 240-249: the outer except. rollback() drops the pending objects
\* and the uncommitted attribute changes; then FAILED is committed (a commit
\* that raises here leaves the except with that exception) and the fault is
\* raised to Celery; finally closes the session.
HandleFault(j) ==
    /\ pc[j] = "except"
    /\ LET rolled_back == IF rec_id[j] = 0 THEN upload_rec[j] ELSE file_uploads[rec_id[j]]
           rec == [rolled_back EXCEPT !.status = "FAILED"]
       IN  \E ok \in BOOLEAN :
             IF ok
             THEN Committed(j, rec, <<>>)
             ELSE /\ UNCHANGED <<file_uploads, processing_logs>>
                  /\ pending' = [pending EXCEPT ![j] = <<>>]
                  /\ upload_rec' = [upload_rec EXCEPT ![j] = rec]
    /\ pc' = [pc EXCEPT ![j] = "done"]
    /\ outcome' = [outcome EXCEPT ![j] = "raised"]
    /\ UNCHANGED <<forced_operation, file_content, index, success_count, error_count,
                   rec_id, rowlog, fault>>
    /\ UNCHANGED ingest_vars

Next ==
    \E j \in Jobs :
        \/ CreateRecord(j)
        \/ ReadCsv(j)
        \/ ProcessRow(j)
        \/ Complete(j)
        \/ HandleFault(j)

Spec == Init /\ [][Next]_vars
\* ================================================= DataProcessor (ingest)
\* Column names, as strings of characters.
n_shortname == <<"s", "h", "o", "r", "t", "n", "a", "m", "e">>
n_fullname == <<"f", "u", "l", "l", "n", "a", "m", "e">>
n_username == <<"u", "s", "e", "r", "n", "a", "m", "e">>
n_firstname == <<"f", "i", "r", "s", "t", "n", "a", "m", "e">>
n_lastname == <<"l", "a", "s", "t", "n", "a", "m", "e">>
n_email == <<"e", "m", "a", "i", "l">>
n_password == <<"p", "a", "s", "s", "w", "o", "r", "d">>
n_delete == <<"d", "e", "l", "e", "t", "e">>
n_visible == <<"v", "i", "s", "i", "b", "l", "e">>
n_role == <<"r", "o", "l", "e">>
n_category_idnumber == <<"c", "a", "t", "e", "g", "o", "r", "y", "_", "i", "d", "n", "u", "m", "b", "e", "r">>
n_nombre_cat == <<"n", "o", "m", "b", "r", "e", "_", "c", "a", "t">>
n_cod_programa == <<"c", "o", "d", "_", "p", "r", "o", "g", "r", "a", "m", "a">>
n_cod_curso == <<"c", "o", "d", "_", "c", "u", "r", "s", "o">>
n_semestre == <<"s", "e", "m", "e", "s", "t", "r", "e">>
n_grupo == <<"g", "r", "u", "p", "o">>
n_nombre_curso == <<"n", "o", "m", "b", "r", "e", "_", "c", "u", "r", "s", "o">>
n_format == <<"f", "o", "r", "m", "a", "t">>
n_templatecourse == <<"t", "e", "m", "p", "l", "a", "t", "e", "c", "o", "u", "r", "s", "e">>

UpperChar(c) ==
    IF \E n \in 1..26 : Lowers[n] = c
    THEN Uppers[CHOOSE n \in 1..26 : Lowers[n] = c]
    ELSE IF \E n \in DOMAIN AccentedLowers : AccentedLowers[n] = c
    THEN AccentedUppers[CHOOSE n \in DOMAIN AccentedLowers : AccentedLowers[n] = c]
    ELSE c
Upper(s) == [k \in 1..Len(s) |-> UpperChar(s[k])]
IsUpperLetter(c) == \E n \in 1..26 : Uppers[n] = c
IsLowerLetter(c) == \E n \in 1..26 : Lowers[n] = c

\* "".join(parts)
RECURSIVE Join(_)
Join(parts) == IF parts = <<>> THEN <<>> ELSE Head(parts) \o Join(Tail(parts))

\* sub in s
Contains(s, sub) ==
    \E k \in 0..(Len(s) - Len(sub)) : SubSeq(s, k + 1, k + Len(sub)) = sub

\* str.zfill(width)
RECURSIVE Zeros(_)
Zeros(n) == IF n <= 0 THEN <<>> ELSE <<"0">> \o Zeros(n - 1)
ZFill(s, width) ==
    IF s # <<>> /\ Head(s) \in {"-", "+"}
    THEN <<Head(s)>> \o Zeros(width - Len(s)) \o Tail(s)
    ELSE Zeros(width - Len(s)) \o s

\* float(x) of a str: the literals [sign] digits [. digits], with whole the
\* value truncated toward zero, and [sign] inf, infinity, nan in any case;
\* another str raises ValueError (ok is FALSE).
s_inf == <<"i", "n", "f">>
s_infinity == <<"i", "n", "f", "i", "n", "i", "t", "y">>
s_nan == <<"n", "a", "n">>
first_dot(u) ==
    IF \E k \in 1..Len(u) : u[k] = "."
    THEN CHOOSE k \in 1..Len(u) : u[k] = "." /\ \A m \in 1..(k - 1) : u[m] # "."
    ELSE Len(u) + 1
float_parts(neg, ipart, fpart, u) ==
    IF /\ \A k \in 1..Len(ipart) : IsDigit(ipart[k])
       /\ \A k \in 1..Len(fpart) : IsDigit(fpart[k])
       /\ ipart \o fpart # <<>>
    THEN [ok |-> TRUE, whole |-> IF neg THEN -DigitsToNat(ipart) ELSE DigitsToNat(ipart),
          inf |-> FALSE, nan |-> FALSE]
    ELSE IF Lower(u) \in {s_inf, s_infinity}
    THEN [ok |-> TRUE, whole |-> 0, inf |-> TRUE, nan |-> FALSE]
    ELSE IF Lower(u) = s_nan
    THEN [ok |-> TRUE, whole |-> 0, inf |-> FALSE, nan |-> TRUE]
    ELSE [ok |-> FALSE, whole |-> 0, inf |-> FALSE, nan |-> FALSE]
float_unsigned(neg, u) ==
    float_parts(neg, SubSeq(u, 1, first_dot(u) - 1), SubSeq(u, first_dot(u) + 1, Len(u)), u)
float_stripped(b) ==
    IF b # <<>> /\ Head(b) \in {"-", "+"} THEN float_unsigned(Head(b) = "-", Tail(b))
    ELSE float_unsigned(FALSE, b)
PyFloat(s) == float_stripped(Strip(s))

\* data_processor.py 29-33
clean_general_text(text) ==
    IF text.t = "null" THEN StrCell(<<>>) ELSE StrCell(Strip(PyStr(text)))

\* data_processor.py 35-46
UsernameChar(c) ==
    IF IsLowerLetter(c) \/ IsDigit(c) \/ c \in {".", "-", "@", "_"} THEN <<c>> ELSE <<>>
clean_username(text) ==
    IF text.t = "null" THEN StrCell(<<>>)
    ELSE LET s == Strip(Lower(PyStr(text)))
         IN  StrCell(Join([k \in 1..Len(s) |-> UsernameChar(s[k])]))

\* data_processor.py 48-60
LetterOnly(c) == IF IsUpperLetter(c) THEN <<c>> ELSE <<>>
get_cat_prefix(cat_name) ==
    LET name == Strip(Upper(PyStr(cat_name)))
    IN  IF Contains(name, <<"A", "P", "A", "R", "T", "A", "D", "O">>)
        THEN <<"U", "R", "A">>
        ELSE Take(Join([k \in 1..Len(name) |-> LetterOnly(name[k])]), 3)

\* data_processor.py 62-71
\* float(code): of None it raises TypeError
float_of(code) ==
    IF code.t = "str" THEN PyFloat(code.s)
    ELSE IF code.t = "null" THEN [ok |-> FALSE, whole |-> 0, inf |-> FALSE, nan |-> FALSE]
    ELSE [ok |-> TRUE, whole |-> PyInt(code).v, inf |-> FALSE, nan |-> FALSE]
\* int(float('inf')) raises OverflowError, which the except clause
\* (ValueError, TypeError) does not catch.
format_program_code_raises(code) == float_of(code).inf
\* The string returned when nothing is raised; int(float('nan')) raises
\* ValueError, which is caught.
program_code_text(code, number) ==
    IF number.ok /\ ~number.nan /\ ~number.inf
    THEN ZFill(IntToStr(number.whole), 2)
    ELSE ZFill(PyStr(code), 2)
format_program_code(code) == program_code_text(code, float_of(code))

\* data_processor.py 161-165: one header cell
HeaderChar(c) ==
    CASE c = " " -> <<"_">>
      [] c \in {".", "-"} -> <<>>
      [] OTHER -> <<c>>
normalize_header(col) ==
    LET s == Lower(Strip(col))
    IN  Join([k \in 1..Len(s) |-> HeaderChar(s[k])])


\* A DataFrame: the column labels, and the rows as cells in column order.
DataFrame(columns, rows) == [columns |-> columns, rows |-> rows]
Range(seq) == {seq[k] : k \in 1..Len(seq)}
ColIndex(columns, name) ==
    IF name \in Range(columns) THEN CHOOSE k \in 1..Len(columns) : columns[k] = name ELSE 0
\* row.get(name, default) on a row of the frame
Cell(columns, row, name, default) ==
    IF name \in Range(columns) THEN row[ColIndex(columns, name)] ELSE default
\* df[name] = values: replaces the column in place, or appends it
SetColumn(df, name, values) ==
    IF name \in Range(df.columns)
    THEN DataFrame(df.columns,
                   [r \in 1..Len(df.rows) |->
                       [df.rows[r] EXCEPT ![ColIndex(df.columns, name)] = values[r]]])
    ELSE DataFrame(Append(df.columns, name),
                   [r \in 1..Len(df.rows) |-> Append(df.rows[r], values[r])])
\* The cells of one column, top to bottom
Column(df, name) == [r \in 1..Len(df.rows) |-> Cell(df.columns, df.rows[r], name, None)]
\* df.map(self._clean_general_text)
clean_cells(df) ==
    DataFrame(df.columns,
              [r \in 1..Len(df.rows) |->
                  [k \in 1..Len(df.rows[r]) |-> clean_general_text(df.rows[r][k])]])

\* data_processor.py 19-27: REQUIRED_COLUMNS["CREATE_COURSE_RAW"]
CREATE_COURSE_RAW ==
    {n_nombre_cat, n_cod_programa, n_cod_curso, n_semestre, n_grupo, n_nombre_curso}
\* data_processor.py 19-27: the other entries of REQUIRED_COLUMNS
REQUIRED_COLUMNS(key) ==
    CASE key = "CREATE_USER" ->
            {n_username, n_firstname, n_lastname, n_email, n_password}
      [] key = "ENROLL_USER" -> {n_username, n_shortname, n_role}
      [] key = "CREATE_COURSE_RAW" -> CREATE_COURSE_RAW
      [] key = "CREATE_COURSE_MOODLE" -> {n_fullname, n_shortname, n_category_idnumber}
      [] OTHER -> {}

StripStr(cell) == Strip(PyStr(cell))
s_00 == StrCell(<<"0", "0">>)
s_empty == StrCell(<<>>)
\* A variant that writes "G-" before the group.
shortname_of_with_marker(columns, row) ==
    get_cat_prefix(Cell(columns, row, n_nombre_cat, s_empty))
    \o format_program_code(Cell(columns, row, n_cod_programa, s_00))
    \o StripStr(Cell(columns, row, n_cod_curso, s_empty))
    \o <<"_", "s">> \o StripStr(Cell(columns, row, n_semestre, s_empty))
    \o <<"G", "-">> \o StripStr(Cell(columns, row, n_grupo, s_empty))
\* data_processor.py 90-96
shortname_of(columns, row) ==
    get_cat_prefix(Cell(columns, row, n_nombre_cat, s_empty))
    \o format_program_code(Cell(columns, row, n_cod_programa, s_00))
    \o StripStr(Cell(columns, row, n_cod_curso, s_empty))
    \o <<"_", "s">> \o StripStr(Cell(columns, row, n_semestre, s_empty))
    \o StripStr(Cell(columns, row, n_grupo, s_empty))
\* data_processor.py 100-102
fullname_of(columns, row) ==
    StripStr(Cell(columns, row, n_nombre_curso, s_empty))
    \o <<" ", "-", " ", "G", "r", "u", "p", "o", " ">>
    \o StripStr(Cell(columns, row, n_grupo, s_empty))
\* data_processor.py 106-110
category_idnumber_of(columns, row) ==
    get_cat_prefix(Cell(columns, row, n_nombre_cat, s_empty)) \o <<"_">>
    \o format_program_code(Cell(columns, row, n_cod_programa, s_00)) \o <<"_">>
    \o <<"s">> \o StripStr(Cell(columns, row, n_semestre, s_empty))
\* data_processor.py 119-124
templatecourse_of(columns, row) ==
    <<"P", "O", "R", "T", "A", "F", "O", "L", "I", "O">>
    \o format_program_code(Cell(columns, row, n_cod_programa, s_00)) \o <<"_">>
    \o StripStr(Cell(columns, row, n_cod_curso, s_empty)) \o <<"s">>
    \o StripStr(Cell(columns, row, n_semestre, s_empty))
s_onetopic == <<"o", "n", "e", "t", "o", "p", "i", "c">>

\* pd.to_numeric(errors='coerce').fillna(default).astype(int), on one cell
\* "inf" is a number to pd.to_numeric and astype(int) raises on it; "nan" is
\* NaN and takes the default.
to_flag_raises(cell) == float_of(cell).inf
flag_of(number, default) ==
    IntCell(IF number.ok /\ ~number.nan THEN number.whole ELSE default)
to_flag(cell, default) == flag_of(float_of(cell), default)
visible_flag(cell) == to_flag(cell, 1)
delete_flag(cell) == to_flag(cell, 0)

\* df[name] = df.apply(lambda row: ..., axis=1), one per derived column
with_shortname(df) ==
    SetColumn(df, n_shortname,
              [r \in 1..Len(df.rows) |-> StrCell(shortname_of(df.columns, df.rows[r]))])
with_fullname(df) ==
    SetColumn(df, n_fullname,
              [r \in 1..Len(df.rows) |-> StrCell(fullname_of(df.columns, df.rows[r]))])
with_category_idnumber(df) ==
    SetColumn(df, n_category_idnumber,
              [r \in 1..Len(df.rows) |->
                  StrCell(category_idnumber_of(df.columns, df.rows[r]))])
with_format(df) ==
    SetColumn(df, n_format, [r \in 1..Len(df.rows) |-> StrCell(s_onetopic)])
with_templatecourse(df) ==
    SetColumn(df, n_templatecourse,
              [r \in 1..Len(df.rows) |-> StrCell(templatecourse_of(df.columns, df.rows[r]))])
\* data_processor.py 83-124
with_academic_fields(df) ==
    IF CREATE_COURSE_RAW \subseteq Range(df.columns)
    THEN with_templatecourse(with_format(with_category_idnumber(
             with_fullname(with_shortname(df)))))
    ELSE df
\* data_processor.py 127-128
with_visible(df) ==
    IF n_visible \in Range(df.columns)
    THEN SetColumn(df, n_visible,
                   [r \in 1..Len(df.rows) |-> visible_flag(Column(df, n_visible)[r])])
    ELSE df
\* data_processor.py 130-131
with_delete(df) ==
    IF n_delete \in Range(df.columns)
    THEN SetColumn(df, n_delete,
                   [r \in 1..Len(df.rows) |-> delete_flag(Column(df, n_delete)[r])])
    ELSE df

\* data_processor.py 73-133
construct_moodle_fields(df) == with_delete(with_visible(with_academic_fields(df)))
\* An exception leaves _construct_moodle_fields
construct_moodle_fields_raises(df) ==
    \/ /\ CREATE_COURSE_RAW \subseteq Range(df.columns)
       /\ \E r \in 1..Len(df.rows) :
             format_program_code_raises(Cell(df.columns, df.rows[r], n_cod_programa, s_00))
    \/ \E name \in {n_visible, n_delete} \cap Range(df.columns) :
          \E r \in 1..Len(df.rows) : to_flag_raises(Column(df, name)[r])

\* data_processor.py 179-181: replace("", nan); dropna(how='all'); fillna("")
IsNaN(cell) == cell.t = "null" \/ cell = s_empty
AllNaN(row) == \A k \in 1..Len(row) : IsNaN(row[k])
drop_empty_rows(df) == DataFrame(df.columns, SelectSeq(df.rows, LAMBDA row : ~AllNaN(row)))
\* df.empty
Empty(df) == df.columns = <<>> \/ df.rows = <<>>

\* data_processor.py 217-247; the second component of the pair is always None
missing_none == {}
\* A variant that tries the enrolment rule before the course rule.
detect_operation_enroll_first(columns) ==
    LET columns_set == Range(columns)
        Found(op) == [operation |-> op, missing |-> missing_none]
    IN  IF {n_username, n_shortname} \subseteq columns_set THEN Found("ENROLL_USER")
        ELSE IF {n_shortname, n_fullname} \subseteq columns_set THEN Found("CREATE_COURSE")
        ELSE IF {n_username, n_firstname, n_lastname, n_email, n_password}
                    \subseteq columns_set THEN Found("CREATE_USER")
        ELSE IF {n_shortname, n_delete} \subseteq columns_set THEN Found("DELETE_COURSE")
        ELSE IF {n_username, n_delete} \subseteq columns_set THEN Found("DELETE_USER")
        ELSE IF {n_shortname, n_visible} \subseteq columns_set THEN Found("UPDATE_VISIBILITY")
        ELSE Found("None")

detect_operation(columns) ==
    LET columns_set == Range(columns)
        Found(op) == [operation |-> op, missing |-> missing_none]
    IN  IF {n_shortname, n_fullname} \subseteq columns_set THEN Found("CREATE_COURSE")
        ELSE IF {n_username, n_shortname} \subseteq columns_set THEN Found("ENROLL_USER")
        ELSE IF {n_username, n_firstname, n_lastname, n_email, n_password}
                    \subseteq columns_set THEN Found("CREATE_USER")
        ELSE IF {n_shortname, n_delete} \subseteq columns_set THEN Found("DELETE_COURSE")
        ELSE IF {n_username, n_delete} \subseteq columns_set THEN Found("DELETE_USER")
        ELSE IF {n_shortname, n_visible} \subseteq columns_set THEN Found("UPDATE_VISIBILITY")
        ELSE Found("None")


\* --------------------------------------------------------- uploaded tables
\* The column names an uploaded header is drawn from, in a fixed order: any
\* of FreeNames, then the personal columns (all, all but the password, or
\* none), then the academic columns (all, all but the group, or none).
FreeNames == <<n_shortname, n_fullname, n_username, n_delete, n_visible, n_role>>
PersonalNames == <<n_firstname, n_lastname, n_email, n_password>>
AcademicNames ==
    <<n_nombre_cat, n_cod_programa, n_cod_curso, n_semestre, n_grupo, n_nombre_curso>>
Reverse(seq) == [k \in 1..Len(seq) |-> seq[Len(seq) + 1 - k]]
\* A header as a spreadsheet spells it: "COD. PROGRAMA", "E-mail", "DELETE ".
Spelled(name) ==
    CASE name = n_cod_programa ->
            <<"C", "O", "D", ".", " ", "P", "R", "O", "G", "R", "A", "M", "A">>
      [] name = n_email -> <<"E", "-", "m", "a", "i", "l">>
      [] OTHER -> Upper(name) \o <<" ">>
\* The value a filled row holds under each column.
SampleCell(name) ==
    CASE name = n_nombre_cat -> StrCell(<<" ", "A", "p", "a", "r", "t", "a", "d", "o">>)
      [] name = n_cod_programa -> IntCell(4)
      [] name = n_cod_curso -> IntCell(12)
      [] name = n_semestre -> IntCell(1)
      [] name = n_grupo -> StrCell(<<"A">>)
      [] name = n_nombre_curso -> StrCell(<<"A", "r", "t", "e">>)
      [] name = n_delete -> IntCell(1)
      [] name = n_visible -> IntCell(0)
      [] name = n_username -> StrCell(<<"A", "n", "a", " ", "P">>)
      [] name = n_shortname -> StrCell(<<"c", "1">>)
      [] name = n_password -> StrCell(<<"0", "1", "2", "3", "4", "5", "6", "7">>)
      [] OTHER -> StrCell(<<"x">>)
AllOrAllButLast(names) == { <<>>, names, SubSeq(names, 1, Len(names) - 1) }
AcademicBlocks ==
    { <<>>, AcademicNames, SelectSeq(AcademicNames, LAMBDA n : n # n_grupo) }
Header(S, personal, academic) ==
    SelectSeq(FreeNames, LAMBDA n : n \in S) \o personal \o academic
\* A column of integers with a missing value is read as float64.
AsRead(cell, some_blank) ==
    IF some_blank /\ cell.t = "int" THEN FloatCell(10 * cell.i) ELSE cell
RowOf(header, kind, some_blank) ==
    [k \in 1..Len(header) |->
        IF kind = "blank" THEN None ELSE AsRead(SampleCell(header[k]), some_blank)]
\* The file with header h and one row per kind; spelled, it has the
\* spreadsheet's spelling and the columns in the opposite order.
Upload(h, spelled, kinds) ==
    [ok |-> TRUE,
     columns |-> IF spelled THEN Reverse([k \in 1..Len(h) |-> Spelled(h[k])]) ELSE h,
     rows |-> [r \in 1..Len(kinds) |->
                 IF spelled THEN Reverse(RowOf(h, kinds[r], "blank" \in Range(kinds)))
                 ELSE RowOf(h, kinds[r], "blank" \in Range(kinds))]]

IngestInit ==
    /\ pc = [j \in Jobs |-> "idle"]
    /\ forced_operation = [j \in Jobs |-> "CREATE_USER"]
    /\ file_content = [j \in Jobs |-> NoTable]
    /\ index = [j \in Jobs |-> 0]
    /\ success_count = [j \in Jobs |-> 0]
    /\ error_count = [j \in Jobs |-> 0]
    /\ upload_rec = [j \in Jobs |-> NewRecord(forced_operation[j])]
    /\ rec_id = [j \in Jobs |-> 0]
    /\ pending = [j \in Jobs |-> <<>>]
    /\ file_uploads = <<>>
    /\ processing_logs = <<>>
    /\ rowlog = [j \in Jobs |-> <<>>]
    /\ fault = [j \in Jobs |-> "none"]
    /\ outcome = [j \in Jobs |-> "none"]
    /\ \/ upload = NoUpload
       \/ \E S \in SUBSET Range(FreeNames) :
          \E personal \in AllOrAllButLast(PersonalNames) :
          \E academic \in AcademicBlocks :
          \E spelled \in BOOLEAN :
          \E n \in 0..MaxUploadRows : \E kinds \in [1..n -> {"blank", "filled"}] :
             /\ Header(S, personal, academic) # <<>>
             /\ upload = Upload(Header(S, personal, academic), spelled, kinds)
    /\ analysis = NotAnalyzed
    /\ naming = NotNamed(NoAcademicRow)
    /\ response = NoResponse
    /\ page = NewPage

\* A variant in which the error is recorded after valid was set.
RejectedAfterValid(error) ==
    [returned |-> TRUE, valid |-> TRUE, operation |-> "None", error |-> error,
     dataframe |-> NoFrame]
\* data_processor.py 135-215
Rejected(error) ==
    [returned |-> TRUE, valid |-> FALSE, operation |-> "None", error |-> error,
     dataframe |-> NoFrame]
\* data_processor.py 161-181: the frame as it stands before "if df.empty"
normalized(file) ==
    DataFrame([k \in 1..Len(file.columns) |-> normalize_header(file.columns[k])], file.rows)
with_clean_username(df) ==
    IF n_username \in Range(df.columns)
    THEN SetColumn(df, n_username,
                   [r \in 1..Len(df.rows) |-> clean_username(Column(df, n_username)[r])])
    ELSE df
cleaned(file) == with_clean_username(clean_cells(normalized(file)))
transform(file) == drop_empty_rows(construct_moodle_fields(cleaned(file)))

\* A variant that turns away a frame matching several rules.
reject_mixed(df, S) ==
    IF \/ Empty(df)
       \/ {n_shortname, n_fullname} \subseteq S /\ n_delete \in S
       \/ {n_username, n_shortname} \subseteq S /\ n_delete \in S
       \/ {n_shortname, n_fullname, n_username} \subseteq S
       \/ {n_shortname, n_delete, n_visible} \subseteq S
       \/ {n_shortname, n_fullname, n_visible} \subseteq S
       \/ detect_operation(df.columns).operation = "None"
    THEN Rejected("No se pudo determinar la operacion.")
    ELSE [returned |-> TRUE, valid |-> TRUE,
          operation |-> detect_operation(df.columns).operation,
          error |-> "None", dataframe |-> df]
analyze_file_rejecting_mixed(file) ==
    IF ~file.ok THEN Rejected("No se pudo determinar la operacion.")
    ELSE reject_mixed(transform(file), Range(transform(file).columns))

\* data_processor.py 183-210: the frame after the empty rows are dropped,
\* and what _detect_operation returned for its columns
classify_frame(df, detected) ==
    IF Empty(df) THEN Rejected("El archivo esta vacio o no contiene datos validos.")
    ELSE IF detected.operation = "None"
    THEN Rejected("No se pudo determinar la operacion.")
    ELSE IF detected.missing # missing_none
    THEN Rejected("faltan las columnas")
    ELSE [returned |-> TRUE, valid |-> TRUE, operation |-> detected.operation,
          error |-> "None", dataframe |-> df]
analyze_frame(df) == classify_frame(df, detect_operation(df.columns))
\* data_processor.py 135-215
analyze_file(file) ==
    IF ~file.ok \/ construct_moodle_fields_raises(cleaned(file))
    THEN Rejected("Error interno de procesamiento")
    ELSE analyze_frame(transform(file))

AnalyzeFile ==
    /\ ~analysis.returned
    /\ analysis' = analyze_file(upload)
    /\ UNCHANGED <<upload, naming, front_vars, task_vars>>

IngestNext == AnalyzeFile

SpecIngest == IngestInit /\ [][IngestNext]_vars

\* ------------------------------------------------------- the naming rules
\* The cells an academic row is drawn from, in the order of AcademicNames.
CategoryNames ==
    { StrCell(<<"A", "P", "A", "R", "T", "A", "D", "O">>),
      StrCell(<<" ", "a", "p", "a", "r", "t", "a", "d", "o", " ">>),
      StrCell(<<"S", "e", "d", "e", " ", "A", "p", "a", "r", "t", "a", "d", "o">>),
      StrCell(<<"I", "b", "a", "g", "u", "e">>),
      StrCell(<<"i", "b">>),
      StrCell(<<"i", "-", "2", " ", "b">>),
      StrCell(<<>>),
      StrCell(<<"4", "2">>),
      StrCell(<<"A", "p", "a", "r", "t">>),
      StrCell(<<"L", "í", "b", "a", "n", "o">>) }
ProgramCodes ==
    { IntCell(4), IntCell(0), IntCell(12), IntCell(123), IntCell(-4), FloatCell(40), None,
      StrCell(<<"4", ".", "0">>),
      StrCell(<<"0", "4">>),
      StrCell(<<"-", "1", "2", ".", "0">>),
      StrCell(<<"a", "b", "c">>),
      StrCell(<<"a">>),
      StrCell(<<>>),
      StrCell(<<" ", "7">>),
      StrCell(<<"i", "n", "f">>),
      StrCell(<<"n", "a", "n">>) }
CourseCodes == { IntCell(101), None }
Semesters == { IntCell(1), None, StrCell(<<"I">>) }
Groups == { StrCell(<<"A">>), StrCell(<<" ", "B", " ">>) }
AcademicRows ==
    { <<cat, code, course, sem, grp, StrCell(<<"A", "r", "t", "e">>)>> :
        cat \in CategoryNames, code \in ProgramCodes, course \in CourseCodes,
        sem \in Semesters, grp \in Groups }

TasksIdle ==
    /\ pc = [j \in Jobs |-> "idle"]
    /\ forced_operation = [j \in Jobs |-> "CREATE_USER"]
    /\ file_content = [j \in Jobs |-> NoTable]
    /\ index = [j \in Jobs |-> 0]
    /\ success_count = [j \in Jobs |-> 0]
    /\ error_count = [j \in Jobs |-> 0]
    /\ upload_rec = [j \in Jobs |-> NewRecord(forced_operation[j])]
    /\ rec_id = [j \in Jobs |-> 0]
    /\ pending = [j \in Jobs |-> <<>>]
    /\ file_uploads = <<>>
    /\ processing_logs = <<>>
    /\ rowlog = [j \in Jobs |-> <<>>]
    /\ fault = [j \in Jobs |-> "none"]
    /\ outcome = [j \in Jobs |-> "none"]

NamingInit ==
    /\ TasksIdle
    /\ upload = NoUpload
    /\ analysis = NotAnalyzed
    /\ \E row \in AcademicRows : naming = NotNamed(row)
    /\ response = NoResponse
    /\ page = NewPage

\* The table of the one academic row, as analyze_file has it on entering
\* _construct_moodle_fields.
academic_frame(row) == cleaned([ok |-> TRUE, columns |-> AcademicNames, rows |-> <<row>>])

\* df.iloc[0][name]
first_row_field(df, name) == Cell(df.columns, df.rows[1], name, None).s
\* One derived field of the row, empty when the derivation raised.
derived_field(row, name) ==
    IF construct_moodle_fields_raises(academic_frame(row)) THEN <<>>
    ELSE first_row_field(construct_moodle_fields(academic_frame(row)), name)
\* _get_cat_prefix and _format_program_code on the row's own cells, and the
\* fields _construct_moodle_fields derives for the row inside analyze_file.
naming_rules(row) ==
    [called |-> TRUE, row |-> row,
     prefix |-> get_cat_prefix(row[1]),
     program_code |-> IF format_program_code_raises(row[2]) THEN <<>>
                      ELSE format_program_code(row[2]),
     program_code_raised |-> format_program_code_raises(row[2]),
     derived |-> ~construct_moodle_fields_raises(academic_frame(row)),
     shortname |-> derived_field(row, n_shortname),
     fullname |-> derived_field(row, n_fullname),
     category_idnumber |-> derived_field(row, n_category_idnumber),
     templatecourse |-> derived_field(row, n_templatecourse)]

ApplyNamingRules ==
    /\ ~naming.called
    /\ naming' = naming_rules(naming.row)
    /\ UNCHANGED <<upload, analysis, front_vars, task_vars>>

NamingNext == ApplyNamingRules

SpecNaming == NamingInit /\ [][NamingNext]_vars

\* ------------------------------------------------- the hand-off to a job
n_category_id == <<"c", "a", "t", "e", "g", "o", "r", "y", "_", "i", "d">>
n_category == <<"c", "a", "t", "e", "g", "o", "r", "y">>

\* data_processor.py 249-251: df.to_csv(index=False), as its header and the
\* text of each field; a missing value is written as the empty field.
to_csv_field(cell) == IF cell.t = "null" THEN <<>> ELSE PyStr(cell)
dataframe_to_csv(df) ==
    [columns |-> df.columns,
     rows |-> [r \in 1..Len(df.rows) |->
                 [k \in 1..Len(df.rows[r]) |-> to_csv_field(df.rows[r][k])]]]

\* tasks.py 84: pd.read_csv. Fields it takes for a missing value (some of
\* its default na_values).
NaTexts ==
    { <<>>, <<"N", "A">>, <<"N", "/", "A">>, <<"N", "a", "N">>, <<"n", "a", "n">>, <<"n", "u", "l", "l">>, <<"N", "U", "L", "L">>, <<"N", "o", "n", "e">> }
IntText(t) ==
    AllDigits(IF t # <<>> /\ Head(t) \in {"-", "+"} THEN Tail(t) ELSE t)
FloatText(t) == PyFloat(t).ok
\* The value of a float field in tenths (fields with one decimal at most).
first_decimal(t, dot) ==
    IF dot < Len(t) /\ IsDigit(t[dot + 1]) THEN DigitVal(t[dot + 1]) ELSE 0
TextTenths(t) ==
    10 * PyFloat(t).whole
    + (IF t # <<>> /\ Head(t) = "-" THEN -first_decimal(t, first_dot(t))
       ELSE first_decimal(t, first_dot(t)))
\* The dtype read_csv infers for a column from all its fields: int64 when
\* every field is an integer, float64 when every field is a number or
\* missing, object otherwise.
column_dtype(texts) ==
    LET present == {k \in 1..Len(texts) : texts[k] \notin NaTexts}
    IN  IF present = {} THEN "float64"
        ELSE IF \A k \in present : IntText(texts[k])
        THEN (IF present = 1..Len(texts) THEN "int64" ELSE "float64")
        ELSE IF \A k \in present : FloatText(texts[k]) THEN "float64"
        ELSE "object"
read_csv_field(text, dtype) ==
    IF text \in NaTexts THEN None
    ELSE IF dtype = "int64" THEN IntCell(PyInt(StrCell(text)).v)
    ELSE IF dtype = "float64" THEN FloatCell(TextTenths(text))
    ELSE StrCell(text)
read_csv(csv) ==
    DataFrame(csv.columns,
              [r \in 1..Len(csv.rows) |->
                 [k \in 1..Len(csv.columns) |->
                     read_csv_field(csv.rows[r][k],
                                    column_dtype([q \in 1..Len(csv.rows) |-> csv.rows[q][k]]))]])
\* tasks.py 96-101: row.to_dict(), by the keys the job reads
row_dict(columns, row) ==
    [username |-> Cell(columns, row, n_username, Absent),
     shortname |-> Cell(columns, row, n_shortname, Absent),
     password |-> Cell(columns, row, n_password, Absent),
     delete |-> Cell(columns, row, n_delete, Absent),
     visible |-> Cell(columns, row, n_visible, Absent),
     role |-> Cell(columns, row, n_role, Absent),
     templatecourse |-> Cell(columns, row, n_templatecourse, Absent),
     category_id |-> Cell(columns, row, n_category_id, Absent),
     category |-> Cell(columns, row, n_category, Absent),
     category_idnumber |-> Cell(columns, row, n_category_idnumber, Absent)]
\* The table the job has once it has read the CSV it was handed.
handed_table(csv) ==
    [ok |-> TRUE,
     rows |-> [r \in 1..Len(csv.rows) |-> row_dict(csv.columns, read_csv(csv).rows[r])]]

\* ------------------------------------------------------- the two uploads
\* The files a caller uploads: one that cannot be read, a header without
\* rows, a table no rule matches, and tables of four kinds.
UploadSamples ==
    { NoUpload,
      Upload(<<n_shortname, n_delete>>, FALSE, <<>>),
      Upload(<<n_role>>, FALSE, <<"filled">>),
      Upload(<<n_shortname, n_delete>>, FALSE, <<"filled">>),
      Upload(<<n_username>> \o PersonalNames, TRUE, <<"filled">>),
      Upload(<<n_shortname, n_visible>>, FALSE, <<"filled", "blank">>),
      Upload(AcademicNames, FALSE, <<"filled">>) }

UploadInit ==
    /\ TasksIdle
    /\ upload \in UploadSamples
    /\ analysis = NotAnalyzed
    /\ naming = NotNamed(NoAcademicRow)
    /\ response = NoResponse
    /\ page = NewPage

\* process_moodle_batch.delay(csv, operation): the job waits in the queue of
\* the first free worker slot.
FreeSlots == {j \in Jobs : pc[j] = "idle"}
\* The caller is followed up to the first job dispatched.
NoneDispatched == FreeSlots = Jobs
Delay(csv, operation) ==
    LET j == CHOOSE k \in FreeSlots : \A m \in FreeSlots : k <= m
    IN  /\ pc' = [pc EXCEPT ![j] = "queued"]
        /\ forced_operation' = [forced_operation EXCEPT ![j] = operation]
        /\ file_content' = [file_content EXCEPT ![j] = handed_table(csv)]
        /\ UNCHANGED <<index, success_count, error_count, upload_rec, rec_id, pending,
                       file_uploads, processing_logs, rowlog, fault, outcome>>

\* data_processor.py 139-146: the keys of the dict analyze_file returns
AnalysisKeys == {"valid", "operation", "dataframe", "preview", "error", "summary"}

\* A variant that dispatches the job before it looks at the analysis.
upload_file_api_delay_first(name_ok, result) ==
    IF ~name_ok THEN [status |-> 400, detail |-> "Formato no valido. Use .xlsx", delay |-> FALSE]
    ELSE IF ~result.valid THEN [status |-> 400, detail |-> result.error, delay |-> TRUE]
    ELSE [status |-> 201, detail |-> "None", delay |-> TRUE]
\* routes.py 61-92: the answer, and whether .delay was reached. Reading a key
\* the analysis does not have raises KeyError after the dispatch, which the
\* framework answers with 500.
upload_file_api(name_ok, result) ==
    IF ~name_ok THEN [status |-> 400, detail |-> "Formato no valido. Use .xlsx", delay |-> FALSE]
    ELSE IF ~result.valid THEN [status |-> 400, detail |-> result.error, delay |-> FALSE]
    ELSE IF "total_rows" \in AnalysisKeys
    THEN [status |-> 201, detail |-> "None", delay |-> TRUE]
    ELSE [status |-> 500, detail |-> "KeyError", delay |-> TRUE]

UploadFileApi ==
    /\ NoneDispatched
    /\ response = NoResponse
    /\ ~analysis.returned
    /\ \E name_ok \in BOOLEAN :
          /\ analysis' = IF name_ok THEN analyze_file(upload) ELSE analysis
          /\ response' = [status |-> upload_file_api(name_ok, analysis').status,
                          detail |-> upload_file_api(name_ok, analysis').detail]
          /\ IF upload_file_api(name_ok, analysis').delay
             THEN Delay(dataframe_to_csv(analysis'.dataframe), analysis'.operation)
             ELSE UNCHANGED task_vars
    /\ UNCHANGED <<upload, naming, page>>

\* interface.py 74-101
handle_upload(state, result) ==
    IF ~result.valid THEN [state EXCEPT !.notified = result.error]
    ELSE [csv_data |-> dataframe_to_csv(result.dataframe), has_csv_data |-> TRUE,
          operation_type |-> result.operation, container_visible |-> TRUE,
          notified |-> "Archivo valido. Revise la vista previa."]
HandleUpload ==
    /\ NoneDispatched
    /\ response = NoResponse
    /\ ~analysis.returned
    /\ analysis' = analyze_file(upload)
    /\ page' = handle_upload(page, analysis')
    /\ UNCHANGED <<upload, naming, response, task_vars>>

\* interface.py 103-107
reset_ui(state) ==
    [state EXCEPT !.csv_data = NoCsv, !.has_csv_data = FALSE, !.operation_type = "None",
                  !.container_visible = FALSE]
\* The Cancelar button, shown with the preview.
ResetUi ==
    /\ NoneDispatched
    /\ page.container_visible
    /\ page' = reset_ui(page)
    /\ UNCHANGED <<upload, analysis, naming, response, task_vars>>

\* interface.py 109-137: the CONFIRMAR Y PROCESAR button, shown with the preview.
StartProcessing ==
    /\ NoneDispatched
    /\ page.container_visible
    /\ IF ~page.has_csv_data
       THEN /\ page' = [page EXCEPT !.notified = "No hay datos para procesar."]
            /\ UNCHANGED task_vars
       ELSE /\ Delay(page.csv_data, page.operation_type)
            /\ page' = reset_ui(page)
    /\ UNCHANGED <<upload, analysis, naming, response>>

\* The caller comes with another file.
AnotherFile ==
    /\ NoneDispatched
    /\ analysis.returned \/ response # NoResponse
    /\ upload' \in UploadSamples
    /\ analysis' = NotAnalyzed
    /\ response' = NoResponse
    /\ UNCHANGED <<naming, page, task_vars>>

UploadNext ==
    \/ UploadFileApi
    \/ HandleUpload
    \/ ResetUi
    \/ StartProcessing
    \/ AnotherFile
    \/ Next

SpecUpload == UploadInit /\ [][UploadNext]_vars

\* ================================================================== claims
HasRecord(j) == rec_id[j] # 0
Persisted(j) == file_uploads[rec_id[j]]
Terminal == {"COMPLETED", "FAILED"}
Rows(j) == file_content[j].rows
\* The committed audit entries of job j, in order.
LogsOf(j) == SelectSeq(processing_logs, LAMBDA e : HasRecord(j) /\ e.upload_id = rec_id[j])

\* C1: for every job whose persisted status is COMPLETED, the persisted
\* counters satisfy success_count + error_count = total_records, and
\* total_records is the number of rows of the table.
C1_CountersAddUp ==
    \A j \in Jobs :
        (HasRecord(j) /\ Persisted(j).status = "COMPLETED") =>
            /\ Persisted(j).success_count + Persisted(j).error_count
                  = Persisted(j).total_records
            /\ Persisted(j).total_records = Len(Rows(j))

\* C1 witness: a completed job with both a successful and a failed row.
C1_Witness ==
    \E j \in Jobs :
        /\ HasRecord(j) /\ Persisted(j).status = "COMPLETED"
        /\ Persisted(j).success_count >= 1 /\ Persisted(j).error_count >= 1

\* C2 as stated: every exception raised while a row's remote call is
\* prepared or issued, the template import included, makes the row ERROR.
C2_EveryExceptionIsRowError ==
    \A j \in Jobs : \A k \in DOMAIN rowlog[j] :
        (rowlog[j][k].raised \/ rowlog[j][k].caught) => rowlog[j][k].status = "ERROR"

\* C2 amended: an exception raised in a row's try block makes that row
\* ERROR with the worker-error message; an exception raised by the template
\* import after the course was created is swallowed and leaves the row
\* SUCCESS; in both cases the loop goes on to the next row and no row
\* exception reaches the outer except, so the job is never FAILED by it.
C2_RowExceptionsIsolated ==
    \A j \in Jobs :
        /\ \A k \in DOMAIN rowlog[j] :
              /\ rowlog[j][k].raised =>
                    rowlog[j][k].status = "ERROR" /\ rowlog[j][k].message = WorkerError
              /\ (rowlog[j][k].caught /\ ~rowlog[j][k].raised) =>
                    rowlog[j][k].status = "SUCCESS"
        /\ fault[j] # "row"
        /\ Len(rowlog[j]) = index[j]
        /\ (HasRecord(j) /\ Persisted(j).status = "FAILED") =>
              fault[j] \in {"commit", "read_csv"}

\* C2 witness: a row raised, a later row was processed, the job COMPLETED.
C2_Witness ==
    \E j \in Jobs :
        /\ HasRecord(j) /\ Persisted(j).status = "COMPLETED"
        /\ Len(rowlog[j]) >= 2 /\ rowlog[j][1].raised

\* C3: once the worker function has ended, every row it processed has
\* exactly one audit entry in the store, in row order, also when the job
\* ended FAILED.
C3_OneAuditEntryPerRow ==
    \A j \in Jobs :
        pc[j] = "done" =>
            /\ Len(LogsOf(j)) = Len(rowlog[j])
            /\ \A k \in DOMAIN rowlog[j] : LogsOf(j)[k].status = rowlog[j][k].status

\* C4: COMPLETED, in the session or in the store, only when every row of
\* the table has been dispatched and given an outcome.
C4_CompletedAfterAllRows ==
    \A j \in Jobs :
        (upload_rec[j].status = "COMPLETED"
            \/ (HasRecord(j) /\ Persisted(j).status = "COMPLETED")) =>
            /\ index[j] = Len(Rows(j))
            /\ Len(rowlog[j]) = Len(Rows(j))
            /\ \A k \in DOMAIN rowlog[j] : rowlog[j][k].status \in {"SUCCESS", "ERROR"}

\* C4 witness: COMPLETED is persisted for a table of at least two rows, the
\* last of which failed.
C4_Witness ==
    \E j \in Jobs :
        /\ HasRecord(j) /\ Persisted(j).status = "COMPLETED"
        /\ Len(Rows(j)) >= 2
        /\ rowlog[j][Len(Rows(j))].status = "ERROR"
        /\ rowlog[j][1].status = "SUCCESS"

\* C5: a record enters the store as PROCESSING; its persisted status only
\* moves PROCESSING -> COMPLETED or PROCESSING -> FAILED; once it is
\* terminal the whole record never changes again.
C5_TerminalIsFinal ==
    [][ /\ \A id \in DOMAIN file_uploads :
              /\ id \in DOMAIN file_uploads'
              /\ file_uploads[id].status \in Terminal =>
                    file_uploads'[id] = file_uploads[id]
              /\ file_uploads[id].status \in {"PROCESSING"} \cup Terminal
        /\ \A id \in DOMAIN file_uploads' \ DOMAIN file_uploads :
              file_uploads'[id].status = "PROCESSING" ]_vars

\* C5 witness: FAILED is persisted on a record that already holds flushed
\* counters, and the worker function has ended.
C5_Witness ==
    \E j \in Jobs :
        /\ pc[j] = "done" /\ HasRecord(j) /\ Persisted(j).status = "FAILED"
        /\ Persisted(j).success_count + Persisted(j).error_count >= 1

\* C6: once the worker function has returned or raised, the job's record
\* holds a terminal status.
C6_EndsTerminal ==
    \A j \in Jobs :
        (pc[j] = "done" /\ HasRecord(j)) => Persisted(j).status \in Terminal

\* The delete flag of a row equals 1.
FlagIsOne(cell) ==
    \/ cell.t = "int" /\ cell.i = 1
    \/ cell.t = "float" /\ cell.i = 10

\* C7: in DELETE_COURSE and DELETE_USER jobs, a row whose delete flag is
\* not 1 (0, another integer, null, or no delete column) ends ERROR with the
\* flag-not-set message and makes no remote request.
C7_FlagNotOneIsSkipped ==
    \A j \in Jobs : \A k \in DOMAIN rowlog[j] :
        (forced_operation[j] \in {"DELETE_COURSE", "DELETE_USER"}
            /\ ~FlagIsOne(Rows(j)[k].delete)) =>
            /\ rowlog[j][k].status = "ERROR"
            /\ rowlog[j][k].message = FlagNotSet
            /\ Requests(rowlog[j][k].calls) = 0

\* C8: in a CREATE_USER job every row whose password has fewer than 8
\* characters ends ERROR with the password-length message and makes no
\* remote request; a completed one-row table with a 6-character password
\* has success_count = 0 and error_count = 1.
C8_ShortPasswordRejected ==
    \A j \in Jobs :
        forced_operation[j] = "CREATE_USER" =>
            /\ \A k \in DOMAIN rowlog[j] :
                  Len(PyStr(RowGet(Rows(j)[k], "password", StrCell(<<>>)))) < 8 =>
                      /\ rowlog[j][k].status = "ERROR"
                      /\ rowlog[j][k].message = PasswordTooShort
                      /\ Requests(rowlog[j][k].calls) = 0
            /\ (/\ HasRecord(j) /\ Persisted(j).status = "COMPLETED"
                /\ Len(Rows(j)) = 1
                /\ Rows(j)[1].password = StrCell(Chars(6))) =>
                  Persisted(j).success_count = 0 /\ Persisted(j).error_count = 1

\* C8 witness: the one-row table with a 6-character password, completed.
C8_Witness ==
    \E j \in Jobs :
        /\ forced_operation[j] = "CREATE_USER"
        /\ HasRecord(j) /\ Persisted(j).status = "COMPLETED"
        /\ Len(Rows(j)) = 1 /\ Rows(j)[1].password = StrCell(Chars(6))
        /\ Persisted(j).error_count = 1

\* ----------------------------------------------------------- classifier
\* The six rules in the order the specification lists them.
PriorityRules ==
    << [kind |-> "CREATE_COURSE", needs |-> {n_shortname, n_fullname}],
       [kind |-> "ENROLL_USER", needs |-> {n_username, n_shortname}],
       [kind |-> "CREATE_USER",
        needs |-> {n_username, n_firstname, n_lastname, n_email, n_password}],
       [kind |-> "DELETE_COURSE", needs |-> {n_shortname, n_delete}],
       [kind |-> "DELETE_USER", needs |-> {n_username, n_delete}],
       [kind |-> "UPDATE_VISIBILITY", needs |-> {n_shortname, n_visible}] >>
Matching(S) == {k \in 1..Len(PriorityRules) : PriorityRules[k].needs \subseteq S}
FirstMatch(S) ==
    IF Matching(S) = {} THEN "None"
    ELSE PriorityRules[CHOOSE k \in Matching(S) : \A m \in Matching(S) : k <= m].kind
UploadedNames == [k \in 1..Len(upload.columns) |-> normalize_header(upload.columns[k])]

\* C9: for every set of normalized column names, whatever the order of the
\* columns, the classifier returns the kind of the first rule, in the listed
\* priority order, whose columns are all present, and returns no operation
\* exactly when no rule matches; an accepted table carries that kind.
C9_FirstMatchingRuleWins ==
    /\ detect_operation(UploadedNames).operation = FirstMatch(Range(UploadedNames))
    /\ detect_operation(Reverse(UploadedNames)) = detect_operation(UploadedNames)
    /\ (detect_operation(UploadedNames).operation = "None")
          <=> (Matching(Range(UploadedNames)) = {})
    /\ analysis.valid =>
          analysis.operation = FirstMatch(Range(analysis.dataframe.columns))

\* A table with the five user columns and "delete" has been analysed: it
\* matches CREATE_USER and DELETE_USER and is classified CREATE_USER.
C9_Witness ==
    /\ analysis.valid
    /\ analysis.operation = "CREATE_USER"
    /\ Cardinality(Matching(Range(analysis.dataframe.columns))) > 1

Mixed(file) == file.ok /\ Cardinality(Matching(Range(transform(file).columns))) > 1

\* C10 as stated: a table whose columns match more than one rule is
\* rejected (valid = false).
C10_MixedTableRejected ==
    (analysis.returned /\ Mixed(upload)) => ~analysis.valid

\* C10: a table with at least one kept row whose columns match more than one
\* rule is accepted whole (valid = true, every kept row in the one frame) and
\* assigned the kind of the first matching rule.
C10_MixedTableTakesFirstKind ==
    (analysis.returned /\ Mixed(upload) /\ ~Empty(transform(upload))) =>
        /\ analysis.valid
        /\ analysis.operation = FirstMatch(Range(transform(upload).columns))
        /\ analysis.dataframe = transform(upload)

\* A table with shortname, fullname and delete and one filled row has been
\* accepted as CREATE_COURSE.
C10_Witness ==
    /\ analysis.returned
    /\ Mixed(upload)
    /\ analysis.valid
    /\ analysis.operation = "CREATE_COURSE"
    /\ n_delete \in Range(analysis.dataframe.columns)

\* ------------------------------------------------------- required columns
\* The columns REQUIRED_COLUMNS lists for a classified operation, role
\* excepted; a course table is held to the Moodle-ready entry.
RequiredOf(operation) ==
    (IF operation = "CREATE_COURSE" THEN REQUIRED_COLUMNS("CREATE_COURSE_MOODLE")
     ELSE REQUIRED_COLUMNS(operation)) \ {n_role}

\* C11: analyze_file never returns valid = true for a table that lacks a
\* column REQUIRED_COLUMNS lists for the classified operation (role
\* excepted); such a table is rejected.
C11_MissingRequiredRejected ==
    analysis.valid =>
        RequiredOf(analysis.operation) \subseteq Range(analysis.dataframe.columns)

\* ------------------------------------------------------------ result shape
\* C12: every result analyze_file returns is either valid = true with an
\* operation, a table and no error, or valid = false with an error, no
\* operation and no table; never valid = true together with an error.
C12_ResultHasOneShape ==
    analysis.returned =>
        \/ /\ analysis.valid
           /\ analysis.operation \in OperationKinds
           /\ analysis.dataframe # NoFrame /\ ~Empty(analysis.dataframe)
           /\ analysis.error = "None"
        \/ /\ ~analysis.valid
           /\ analysis.error # "None"
           /\ analysis.operation = "None"
           /\ analysis.dataframe = NoFrame

\* A readable table with a data row has been rejected: no rule matched.
C12_Witness ==
    /\ analysis.returned /\ ~analysis.valid
    /\ upload.ok /\ ~Empty(transform(upload))
    /\ analysis.error = "No se pudo determinar la operacion."


\* --------------------------------------------------- naming rules: claims
\* The text analyze_file leaves in a cell before the fields are derived.
Text(cell) == clean_general_text(cell).s
\* The row of the naming example: APARTADO, 4, 101, 1, A.
ExampleRow ==
    <<StrCell(<<"A", "P", "A", "R", "T", "A", "D", "O">>), IntCell(4), IntCell(101),
      IntCell(1), StrCell(<<"A">>), StrCell(<<"A", "r", "t", "e">>)>>
\* prefix + program code + course code + "_s" + semester + marker + group
ShortnameFrom(row, marker) ==
    get_cat_prefix(StrCell(Text(row[1]))) \o format_program_code(StrCell(Text(row[2])))
    \o Text(row[3]) \o <<"_", "s">> \o Text(row[4]) \o marker \o Text(row[5])

\* C13 (as amended): for every row with the raw academic columns the derived
\* shortname is category prefix + program code + course code + "_s" +
\* semester + group, with every component trimmed and nothing between the
\* semester and the group; for APARTADO, 4, 101, 1, A it is "URA04101_s1A".
C13_ShortnameFormula ==
    (naming.called /\ naming.derived) =>
        /\ naming.shortname = ShortnameFrom(naming.row, <<>>)
        /\ naming.shortname = Strip(naming.shortname)
        /\ naming.row = ExampleRow =>
              naming.shortname =
                  <<"U", "R", "A", "0", "4", "1", "0", "1", "_", "s", "1", "A">>
\* The example row has been named.
C13_Witness ==
    /\ naming.called /\ naming.derived /\ naming.row = ExampleRow
    /\ naming.shortname = <<"U", "R", "A", "0", "4", "1", "0", "1", "_", "s", "1", "A">>
\* C13 as stated: the shortname carries "G-" between the semester and the group.
C13_ShortnameHasGroupMarker ==
    (naming.called /\ naming.derived) =>
        naming.shortname = ShortnameFrom(naming.row, <<"G", "-">>)


\* A part that is blank, or that float() cannot read.
BlankOrUnparseable(cell) == Text(cell) = <<>> \/ ~float_of(StrCell(Text(cell))).ok
\* "PORTAFOLIO" + program code + "_" + course code + "s" + semester
TemplateFrom(row) ==
    <<"P", "O", "R", "T", "A", "F", "O", "L", "I", "O">>
    \o format_program_code(StrCell(Text(row[2]))) \o <<"_">> \o Text(row[3])
    \o <<"s">> \o Text(row[4])

\* C14: for every row in which the program code, the course code or the
\* semester is blank or unparseable, the derived templatecourse is a fixed
\* fallback name and never the reference assembled from those parts (such as
\* "PORTAFOLIO00_s").
C14_BlankPartsGiveFallback ==
    (/\ naming.called /\ naming.derived
     /\ \E k \in {2, 3, 4} : BlankOrUnparseable(naming.row[k])) =>
        /\ naming.templatecourse # TemplateFrom(naming.row)
        /\ naming.templatecourse #
              <<"P", "O", "R", "T", "A", "F", "O", "L", "I", "O", "0", "0", "_", "s">>

\* str.isalpha() of one character
IsAlpha(c) ==
    \/ IsUpperLetter(c) \/ IsLowerLetter(c)
    \/ \E n \in DOMAIN AccentedUppers : c \in {AccentedUppers[n], AccentedLowers[n]}

\* C15: for every category name, _get_cat_prefix returns "URA" when the
\* upper-cased, stripped name contains "APARTADO" at any position, and
\* otherwise the first three letters of the upper-cased name with every
\* non-letter removed, or all the letters when fewer than three remain.
C15_PrefixOfCategoryName ==
    naming.called =>
        LET name == Strip(Upper(naming.row[1].s))
            letters == SelectSeq(name, IsAlpha)
        IN  naming.prefix =
              IF Contains(name, <<"A", "P", "A", "R", "T", "A", "D", "O">>)
              THEN <<"U", "R", "A">>
              ELSE SubSeq(letters, 1, IF Len(letters) < 3 THEN Len(letters) ELSE 3)


\* The decimal digits of n behind its sign and some zeros.
ZeroPadded(s, n) ==
    \E z \in 0..Len(s) :
        s = (IF n < 0 THEN <<"-">> ELSE <<>>) \o Zeros(z) \o NatToStr(IF n < 0 THEN -n ELSE n)
DigitCount(s) == Cardinality({k \in 1..Len(s) : IsDigit(s[k])})

\* C16: for every numeric-like program code (an integer, or a float-like
\* string such as "4.0", zero and negative values included)
\* _format_program_code returns at least two digits that are the zero-padded
\* decimal form of the integer value; for every other input it returns the
\* raw string zero-padded to width 2; it never raises.
C16_ProgramCodeFormat ==
    naming.called =>
        LET code == naming.row[2]
            numeric == float_of(code).ok /\ ~float_of(code).nan /\ ~float_of(code).inf
        IN  /\ ~naming.program_code_raised
            /\ numeric => /\ DigitCount(naming.program_code) >= 2
                          /\ ZeroPadded(naming.program_code, float_of(code).whole)
            /\ ~numeric => naming.program_code = ZFill(PyStr(code), 2)

\* ----------------------------------------------------- empty rows: claims
\* An uploaded row with nothing in any cell.
BlankRow(row) ==
    \A k \in 1..Len(row) :
        row[k].t = "null" \/ (row[k].t = "str" /\ Strip(row[k].s) = <<>>)
FilledRows(file) == SelectSeq(file.rows, LAMBDA row : ~BlankRow(row))

\* C17: for every table shape, tables with delete or visible flags or with
\* the raw academic columns included, the transformer drops every uploaded
\* row whose cells are all empty, and when every uploaded row is empty it
\* returns valid=false with the empty-file error.
C17_EmptyRowsDropped ==
    (analysis.returned /\ upload.ok) =>
        /\ FilledRows(upload) = <<>> =>
              /\ ~analysis.valid
              /\ analysis.error = "El archivo esta vacio o no contiene datos validos."
        /\ analysis.valid => Len(analysis.dataframe.rows) = Len(FilledRows(upload))


\* ---------------------------------------------------------- uploads: claims
\* A step in which analyze_file returns valid=false.
IngestionRejects == ~analysis.returned /\ analysis'.returned /\ ~analysis'.valid

\* C18: an ingestion error is returned to the caller before any batch job
\* is enqueued: in every step of upload_file_api or handle_upload in which
\* analyze_file returns valid=false, the caller gets the error (the 400
\* answer, or the page's notification), no job is dispatched, and no job
\* record or audit entry is written.
C18_RejectionBeforeAnyJob ==
    [][IngestionRejects =>
          /\ UNCHANGED task_vars
          /\ \/ response'.status = 400 /\ response'.detail = analysis'.error
                /\ page' = page
             \/ page'.notified = analysis'.error /\ response' = response
                /\ page'.csv_data = page.csv_data]_vars
\* upload_file_api has turned an empty table away and nothing was dispatched.
C18_Witness ==
    /\ analysis.returned /\ ~analysis.valid
    /\ analysis.error = "El archivo esta vacio o no contiene datos validos."
    /\ response.status = 400 /\ response.detail = analysis.error
    /\ NoneDispatched /\ file_uploads = <<>> /\ processing_logs = <<>>


\* ------------------------------------------------------ row order: claims
\* Whether a row asks the remote for anything is decided by the row alone.
Asks(op, row) == Requests(dispatch(op, row, NoReply, NoReply, NoReply).calls) >= 1
\* The audit entries of job j in the order they were added: the committed
\* ones, then those still in the session.
AuditOf(j) == LogsOf(j) \o pending[j]

\* C19: within one job the rows are dispatched one at a time in the order of
\* the table (the k-th dispatch is that of row k, and one dispatch is made per
\* loop iteration), no remote function is called twice for a row, whatever
\* the replies, and the job's audit entries are those of the rows dispatched,
\* in row order.
C19_RowsInOrderOnce ==
    \A j \in Jobs :
        /\ Len(rowlog[j]) = index[j]
        /\ Len(rowlog[j]) <= Len(Rows(j))
        /\ \A k \in 1..Len(rowlog[j]) :
              /\ (Requests(rowlog[j][k].calls) >= 1) <=> Asks(forced_operation[j], Rows(j)[k])
              /\ \A a, b \in 1..Len(rowlog[j][k].calls) :
                    (a < b /\ rowlog[j][k].calls[a] # Sleep) =>
                        rowlog[j][k].calls[a].fn # rowlog[j][k].calls[b].fn
        /\ Len(AuditOf(j)) <= Len(rowlog[j])
        /\ \A k \in 1..Len(AuditOf(j)) :
              /\ AuditOf(j)[k].status = rowlog[j][k].status
              /\ AuditOf(j)[k].message = rowlog[j][k].message
\* A job has dispatched a row whose remote call failed and then a row that
\* asks for nothing, and both audit entries are there.
C19_Witness ==
    \E j \in Jobs :
        /\ Len(rowlog[j]) = 2 /\ Len(AuditOf(j)) = 2
        /\ Requests(rowlog[j][1].calls) >= 1 /\ rowlog[j][1].status = "ERROR"
        /\ Requests(rowlog[j][2].calls) = 0


\* ------------------------------------------------- concurrent jobs: claims
\* Job j takes the step.
Stepped(j) == pc'[j] # pc[j] \/ index'[j] # index[j]
\* What the step appended to the audit table.
AppendedLogs == SubSeq(processing_logs', Len(processing_logs) + 1, Len(processing_logs'))

\* C20: with several jobs running side by side, in every step of a job the
\* only BatchJob record that changes is the one the job created (a record is
\* created only as the job's own), every audit entry the step stores carries
\* the job's own id, no other job's counters or session change, and no two
\* jobs hold the same record.
C20_JobsWriteOwnRecord ==
    [][\A j \in Jobs : Stepped(j) =>
          /\ Len(file_uploads') >= Len(file_uploads)
          /\ \A i \in 1..Len(file_uploads') :
                (i # rec_id'[j]) => (i <= Len(file_uploads) /\ file_uploads'[i] = file_uploads[i])
          /\ SubSeq(processing_logs', 1, Len(processing_logs)) = processing_logs
          /\ \A e \in 1..Len(AppendedLogs) :
                rec_id[j] # 0 /\ AppendedLogs[e].upload_id = rec_id[j]
          /\ \A k \in Jobs \ {j} :
                /\ success_count'[k] = success_count[k] /\ error_count'[k] = error_count[k]
                /\ upload_rec'[k] = upload_rec[k] /\ pending'[k] = pending[k]
                /\ rec_id'[k] = rec_id[k]
                /\ rec_id'[j] # 0 => rec_id'[k] # rec_id'[j]]_vars
\* Two jobs have run side by side to their ends, each on its own record, and
\* one of them has stored an audit entry.
C20_Witness ==
    \E j, k \in Jobs :
        /\ j # k /\ HasRecord(j) /\ HasRecord(k) /\ rec_id[j] = 2
        /\ Persisted(j).status = "COMPLETED" /\ Persisted(j).total_records = 1
        /\ Len(LogsOf(j)) = 1
        /\ Persisted(k).status = "FAILED"


\* ------------------------------------------------------------------ C21
\* The rows of job j given an outcome so far.
Processed(j) == Len(rowlog[j])
\* The rows of job j covered by its last flush: the flush follows the rows
\* whose index is a multiple of FlushEvery.
Flushed(j) ==
    IF Processed(j) = 0 THEN 0
    ELSE ((Processed(j) - 1) \div FlushEvery) * FlushEvery + 1
\* The SUCCESS outcomes among the first n rows of job j.
SuccessesIn(j, n) ==
    Cardinality({k \in 1..n : rowlog[j][k].status = "SUCCESS"})

\* C21 as stated: at every point of a running job the counters readable
\* from the store add up to the number of rows already given an outcome.
C21_StoreCountsEveryRow ==
    \A j \in Jobs :
        (pc[j] = "loop" /\ HasRecord(j)) =>
            Persisted(j).success_count + Persisted(j).error_count = Processed(j)

\* C21 amended: in a running job the counters in memory count every row
\* given an outcome, while the counters in the store are those of the last
\* flush; they never exceed the rows processed and lag behind them between
\* flushes.
C21_StoreCountsFlushedRows ==
    \A j \in Jobs :
        (pc[j] = "loop" /\ HasRecord(j)) =>
            /\ success_count[j] + error_count[j] = Processed(j)
            /\ success_count[j] = SuccessesIn(j, Processed(j))
            /\ Persisted(j).success_count + Persisted(j).error_count = Flushed(j)
            /\ Persisted(j).success_count = SuccessesIn(j, Flushed(j))
            /\ Flushed(j) <= Processed(j)

\* C21 witness: a running job has given two rows an outcome, the second a
\* SUCCESS, and the store still shows the counters of the first flush.
C21_Witness ==
    \E j \in Jobs :
        /\ pc[j] = "loop" /\ HasRecord(j)
        /\ Processed(j) = 2 /\ rowlog[j][2].status = "SUCCESS"
        /\ Persisted(j).success_count + Persisted(j).error_count = 1


\* ------------------------------------------------------------------ C22
\* A time.sleep stands in the calls of a row before its first request.
SleepsBeforeFirstRequest(calls) ==
    \E p \in DOMAIN calls :
        calls[p] = Sleep /\ \A q \in 1..(p - 1) : calls[q] = Sleep
\* A time.sleep stands in the calls of a row after its last request.
SleepsAfterLastRequest(calls) ==
    \E p \in DOMAIN calls :
        calls[p] = Sleep /\ \A q \in (p + 1)..Len(calls) : calls[q] = Sleep
\* A delay was taken between the last request made before row k of job j
\* and the first request of row k.
Delayed(j, k) ==
    \/ SleepsBeforeFirstRequest(rowlog[j][k].calls)
    \/ \E i \in 1..(k - 1) :
          /\ SleepsAfterLastRequest(rowlog[j][i].calls)
          /\ \A m \in (i + 1)..(k - 1) : Requests(rowlog[j][m].calls) = 0

\* C22: the remote calls of every row, the first row included, are preceded
\* by the inter-row delay, also when the row before ended in an exception.
C22_DelayBeforeEveryCall ==
    \A j \in Jobs : \A k \in DOMAIN rowlog[j] :
        Requests(rowlog[j][k].calls) > 0 => Delayed(j, k)


\* ------------------------------------------------------------------ C23
\* Role cells as a sheet can hold them: null, blank, the Spanish names in
\* several spellings, an unknown name, and numbers.
RoleSamples ==
    { None, StrCell(<<>>), StrCell(<<" ", " ">>),
      StrCell(<<"P", "r", "o", "f", "e", "s", "o", "r">>),
      StrCell(<<"D", "O", "C", "E", "N", "T", "E", " ">>),
      StrCell(<<" ", "e", "s", "t", "u", "d", "i", "a", "n", "t", "e">>),
      StrCell(<<"A", "l", "u", "m", "n", "o", " ">>),
      StrCell(<<"i", "n", "v", "i", "t", "a", "d", "o">>),
      StrCell(<<"G", "e", "s", "t", "o", "r">>),
      StrCell(<<"t", "u", "t", "o", "r">>),
      IntCell(5), FloatCell(50) }

\* The role names the mapping of the executor knows.
KnownRoles == { kv[1] : kv \in role_mapping }

\* The technical role a role cell stands for: the named Spanish roles, and
\* editingteacher for a blank, null or unknown one.
TechnicalRoleOf(cell) ==
    LET text == Strip(Lower(PyStr(cell)))
    IN  CASE cell.t \in {"null", "absent"} \/ text = <<>> -> s_editingteacher
          [] text \in { <<"p", "r", "o", "f", "e", "s", "o", "r">>,
                        <<"d", "o", "c", "e", "n", "t", "e">> } -> s_editingteacher
          [] text \in { <<"e", "s", "t", "u", "d", "i", "a", "n", "t", "e">>,
                        <<"a", "l", "u", "m", "n", "o">> } -> s_student
          [] text = <<"i", "n", "v", "i", "t", "a", "d", "o">> -> <<"g", "u", "e", "s", "t">>
          [] text = <<"g", "e", "s", "t", "o", "r">> -> <<"m", "a", "n", "a", "g", "e", "r">>
          [] text \notin KnownRoles -> s_editingteacher
          [] OTHER -> DictGet(role_mapping, text, <<>>)
\* The remote id of a technical role; 0 when it has none.
RoleIdOf(name) == DictGet(role_map, name, 0)

\* The role ids sent by the enroll requests of row k of job j.
EnrolledAs(j, k) ==
    { rowlog[j][k].calls[p].arg :
        p \in { q \in DOMAIN rowlog[j][k].calls :
                  rowlog[j][k].calls[q].fn = "enrol_manual_enrol_users" } }

\* C23: the role of an ENROLL_USER row is mapped, ignoring case and
\* surrounding blanks, profesor/docente -> editingteacher, estudiante/alumno
\* -> student, invitado -> guest, gestor -> manager, and a blank, null or
\* unknown role -> editingteacher; the role id sent with the enroll request
\* is the id of the mapped role (editingteacher 3, student 5).
C23_RoleMappedThenSent ==
    /\ \A cell \in RoleSamples :
          /\ map_role_to_technical_name(cell) = TechnicalRoleOf(cell)
          /\ role_id_of(StrCell(map_role_to_technical_name(cell)))
                = RoleIdOf(TechnicalRoleOf(cell))
    /\ RoleIdOf(s_editingteacher) = 3 /\ RoleIdOf(s_student) = 5
    /\ \A j \in Jobs : \A k \in DOMAIN rowlog[j] :
          forced_operation[j] = "ENROLL_USER" =>
              EnrolledAs(j, k) \subseteq
                  { RoleIdOf(TechnicalRoleOf(RowGet(Rows(j)[k], "role", None))) }

\* C23 witness: one job has enrolled a row without a role as editingteacher
\* and a row with the role "Alumno " as student.
C23_Witness ==
    \E j \in Jobs :
        /\ forced_operation[j] = "ENROLL_USER" /\ Len(rowlog[j]) = 2
        /\ \E k \in 1..2 :
              /\ Rows(j)[k].role = Absent /\ EnrolledAs(j, k) = {3}
              /\ Rows(j)[3 - k].role.t = "str" /\ EnrolledAs(j, 3 - k) = {5}


\* ------------------------------------------------------------------ C24
\* The remote functions requested by row k of job j, in order.
RequestsOf(j, k) ==
    [p \in 1..Requests(rowlog[j][k].calls) |->
        SelectSeq(rowlog[j][k].calls, LAMBDA c : c # Sleep)[p].fn]
EnrollSteps ==
    <<"core_user_get_users_by_field", "core_course_get_courses_by_field",
      "enrol_manual_enrol_users">>
\* The functions requested by a call of a client method.
Functions(m) == [p \in DOMAIN m.calls |-> m.calls[p].fn]
\* A lookup that returned None.
NoMatch(found) == ~found.raised /\ found.id = 0
\* A lookup that returned an id.
Match(found) == ~found.raised /\ found.id # 0

\* C24: an ENROLL_USER row looks the user up first and the course second;
\* a lookup without a match fails the row with the message naming the
\* missing user or course and no enroll request is made; the enroll request
\* is made only after both lookups returned an id. Stated of the rows
\* processed, and of the row about to be processed under every reply the
\* two lookups can get.
C24_LookupsBeforeEnroll ==
    /\ \A j \in Jobs : \A k \in DOMAIN rowlog[j] :
          forced_operation[j] = "ENROLL_USER" =>
              /\ RequestsOf(j, k) = SubSeq(EnrollSteps, 1, Len(RequestsOf(j, k)))
              /\ RequestsOf(j, k) # <<>>
              /\ rowlog[j][k].message = "Usuario no encontrado." =>
                    rowlog[j][k].status = "ERROR" /\ Len(RequestsOf(j, k)) = 1
              /\ rowlog[j][k].message = "Curso no encontrado." =>
                    rowlog[j][k].status = "ERROR" /\ Len(RequestsOf(j, k)) = 2
    /\ \A j \in Jobs :
          (forced_operation[j] = "ENROLL_USER" /\ pc[j] = "loop" /\ ~loop_exhausted(j)) =>
          \A reply1, reply2 \in Replies :
             LET m == enroll_user(CurrentRow(j), reply1, reply2, HttpOk(JsonNull))
                 user == get_user_id_by_username(reply1)
                 course == get_course_id_by_shortname(reply2)
             IN  /\ NoMatch(user) =>
                       /\ m = Returned(Failure("Usuario no encontrado.", {}),
                                       <<Call("core_user_get_users_by_field", 0)>>)
                 /\ (Match(user) /\ NoMatch(course)) =>
                       /\ ~m.raised /\ m.result = Failure("Curso no encontrado.", {})
                       /\ Functions(m) = SubSeq(EnrollSteps, 1, 2)
                 /\ (Match(user) /\ Match(course)) <=> Functions(m) = EnrollSteps

\* C24 witness: in one job a row failed at the course lookup after two
\* requests and another row made the enroll request and succeeded.
C24_Witness ==
    \E j \in Jobs :
        /\ forced_operation[j] = "ENROLL_USER" /\ Len(rowlog[j]) = 2
        /\ rowlog[j][1].message = "Curso no encontrado."
        /\ RequestsOf(j, 1) = SubSeq(EnrollSteps, 1, 2)
        /\ rowlog[j][2].status = "SUCCESS" /\ RequestsOf(j, 2) = EnrollSteps


\* ------------------------------------------------------------------ C25
\* Row k of job j, a CREATE_COURSE row, had its course created.
CourseCreated(j, k) ==
    /\ forced_operation[j] = "CREATE_COURSE"
    /\ rowlog[j][k].status = "SUCCESS"
    /\ \E p \in DOMAIN rowlog[j][k].calls :
          rowlog[j][k].calls[p].fn = "core_course_create_courses"
\* The template reference of a row is non-blank (tasks.py:135).
HasTemplate(row) ==
    /\ Truthy(RowGet(row, "templatecourse", None))
    /\ Strip(PyStr(RowGet(row, "templatecourse", None))) # <<>>

\* C25: a CREATE_COURSE row whose course was created and whose template
\* reference is non-blank stays SUCCESS, and its audit message tells how the
\* template import went: imported, or a template warning when the import
\* failed by a failure result or by an exception.
C25_TemplateFailureWarns ==
    \A j \in Jobs : \A k \in DOMAIN rowlog[j] :
        (CourseCreated(j, k) /\ HasTemplate(Rows(j)[k])) =>
            /\ rowlog[j][k].status = "SUCCESS"
            /\ rowlog[j][k].message
                  \in { "json, template_status: Importada OK",
                        "json, template_warning: Curso creado, pero fallo plantilla" }
            /\ rowlog[j][k].caught =>
                  rowlog[j][k].message
                     = "json, template_warning: Curso creado, pero fallo plantilla"


\* ------------------------------------------------------------------ C26
\* A handed-off row that the transformer derived from the raw academic
\* columns: it carries a category_idnumber and no category id of its own.
FromAcademicColumns(row) ==
    /\ row.category_idnumber.t = "str"
    /\ row.category_id = Absent /\ row.category = Absent
\* The requests of row k of job j for the remote function fn.
RequestsFor(j, k, fn) ==
    { p \in DOMAIN rowlog[j][k].calls : rowlog[j][k].calls[p].fn = fn }

\* C26: for a CREATE_COURSE row derived from the raw academic columns, the
\* category that is validated and receives the course is the one whose
\* idnumber is the row's category_idnumber; when the category does not
\* exist the row fails and no course-creation request is made.
C26_CategoryByIdnumber ==
    \A j \in Jobs : \A k \in DOMAIN rowlog[j] :
        (forced_operation[j] = "CREATE_COURSE" /\ FromAcademicColumns(Rows(j)[k])) =>
            /\ \A p \in RequestsFor(j, k, "core_course_get_categories") :
                  category_criteria(rowlog[j][k].calls[p].arg)
                     = [key |-> "idnumber", value |-> Rows(j)[k].category_idnumber]
            /\ rowlog[j][k].message = "La categoria ID no existe." =>
                  /\ rowlog[j][k].status = "ERROR"
                  /\ RequestsFor(j, k, "core_course_create_courses") = {}


\* ------------------------------------------------------------------ C27
\* The stored audit entries of job j with the given status.
StoredWith(j, status) == SelectSeq(LogsOf(j), LAMBDA e : e.status = status)

\* C27: in every state of the store, for every job with a record, the
\* stored audit entries are as many as the persisted success_count +
\* error_count, the stored SUCCESS entries are as many as success_count, and
\* the sum is at most total_records once the table has been read.
C27_StoreAgreesWithItself ==
    \A j \in Jobs :
        HasRecord(j) =>
            /\ Len(LogsOf(j)) = Persisted(j).success_count + Persisted(j).error_count
            /\ Len(StoredWith(j, "SUCCESS")) = Persisted(j).success_count
            /\ Len(StoredWith(j, "ERROR")) = Persisted(j).error_count
            /\ Persisted(j).success_count + Persisted(j).error_count
                  <= Persisted(j).total_records

\* C27 witness: a job gave two rows an outcome, flushed after the first, and
\* ended FAILED after the rollback: the store holds one SUCCESS entry and the
\* counters of the flush.
C27_Witness ==
    \E j \in Jobs :
        /\ pc[j] = "done" /\ HasRecord(j) /\ Persisted(j).status = "FAILED"
        /\ Len(rowlog[j]) = 2
        /\ Len(LogsOf(j)) = 1 /\ Persisted(j).success_count = 1


\* ------------------------------------------------------------------ C28
\* The table process_moodle_batch reads from the CSV of an accepted frame.
ReadBack(df) == read_csv(dataframe_to_csv(df))

\* C28: for every table analyze_file accepts, the table read back from its
\* CSV has the same number of rows and, in every row and column, a cell
\* with the same text.
C28_HandoffKeepsEveryCell ==
    (analysis.returned /\ analysis.valid) =>
        /\ Len(ReadBack(analysis.dataframe).rows) = Len(analysis.dataframe.rows)
        /\ \A r \in DOMAIN analysis.dataframe.rows :
           \A k \in DOMAIN analysis.dataframe.columns :
              PyStr(ReadBack(analysis.dataframe).rows[r][k])
                 = PyStr(analysis.dataframe.rows[r][k])


\* ------------------------------------------------------------------ C29
\* A step in which upload_file_api answers and has dispatched a job.
EndpointDispatches ==
    /\ response = NoResponse /\ response' # NoResponse
    /\ \E j \in Jobs : pc[j] = "idle" /\ pc'[j] = "queued"

\* C29: whenever the upload endpoint has dispatched process_moodle_batch
\* for a valid file, what it answers to its caller is the success response
\* (201), never a failure.
C29_DispatchedMeansSuccess ==
    [][EndpointDispatches => (analysis'.valid /\ response'.status = 201)]_vars


\* ------------------------------------------------------------------ C30
\* The remote delete answered without an error and without a warning:
\* with no content, with a list, or with an object whose warnings are empty.
DeletedWithoutWarnings(reply) ==
    /\ reply.http = "ok"
    /\ ~reply.body.exception
    /\ reply.body.has_warnings => reply.body.warnings = 0

\* C30: a DELETE_COURSE row with delete = 1 whose course lookup found the
\* course is recorded as SUCCESS exactly when the remote delete answered
\* without an error and without a warning, whatever the shape of the
\* answer. Stated of the row about to be processed under every reply the
\* lookup and the delete can get.
C30_DeleteSuccessIsRecorded ==
    \A j \in Jobs :
        (/\ forced_operation[j] = "DELETE_COURSE"
         /\ pc[j] = "loop" /\ ~loop_exhausted(j)
         /\ FlagIsOne(RowGet(CurrentRow(j), "delete", IntCell(0)))) =>
        \A reply1, reply2 \in Replies :
            Match(get_course_id_by_shortname(reply1)) =>
                (dispatch("DELETE_COURSE", CurrentRow(j), reply1, reply2, NoReply)
                    .result.success
                 <=> DeletedWithoutWarnings(reply2))
====
